---- MODULE Spec2Model ----
(***************************************************************************)
(* Document management service: the in-memory document store with its     *)
(* inverted word index (services/storage.ts), the find/replace change     *)
(* engine (services/change.service.ts), the ETag module (utils/etag.ts)   *)
(* and the route handlers that combine them (routes/documents.ts,         *)
(* routes/changes.ts).                                                     *)
(*                                                                         *)
(* A text is a sequence of one-character strings.  An optional value      *)
(* (a field that may be undefined in the TypeScript source) is a sequence *)
(* of length 0 (undefined) or 1 (the value).                               *)
(***************************************************************************)
EXTENDS Integers, Sequences, FiniteSets, TLC

VARIABLES
    documents,   \* storage.ts `documents`: id -> Document, for the live ids
    wordIndex,   \* storage.ts `wordIndex`: word -> set of ids
    nextId,      \* number of ids handed out so far (randomUUID is fresh)
    now,         \* the wall clock read by `new Date()`
    resp,        \* the result of the last operation (return value / reply)
    call         \* one call of a pure function: its arguments and result

vars == <<documents, wordIndex, nextId, now, resp, call>>

(***************************************************************************)
(* Bounds of the model.                                                    *)
(***************************************************************************)
MaxDocs == 2
MaxVersion == 3
MaxTime == 1
DigestRange == 3

None == <<>>
Some(x) == <<x>>
IsSome(o) == Len(o) > 0
Get(o) == o[1]

ToSet(s) == {s[i] : i \in 1..Len(s)}

(***************************************************************************)
(* Characters.                                                             *)
(***************************************************************************)
toLowerCaseChar(c) ==
    CASE c = "A" -> "a"
      [] c = "B" -> "b"
      [] OTHER -> c

\* the regular expression class \w
IsWordChar(c) == c \in {"a", "b", "A", "B", "_", "0", "1"}

\* the regular expression class \s
IsSpace(c) == c \in {" "}

toLowerCase(text) == [i \in 1..Len(text) |-> toLowerCaseChar(text[i])]

\* text.replace(/[^\w\s]/g, ' ')
ReplaceNonWord(text) ==
    [i \in 1..Len(text) |->
        IF IsWordChar(text[i]) \/ IsSpace(text[i]) THEN text[i] ELSE " "]

\* text.split(/\s+/) from position i on; cur is the piece being read
RECURSIVE SplitWhitespace(_, _, _)
SplitWhitespace(text, i, cur) ==
    IF i > Len(text) THEN <<cur>>
    ELSE IF IsSpace(text[i])
         THEN IF i > 1 /\ IsSpace(text[i - 1])
              THEN SplitWhitespace(text, i + 1, cur)
              ELSE <<cur>> \o SplitWhitespace(text, i + 1, <<>>)
         ELSE SplitWhitespace(text, i + 1, Append(cur, text[i]))

NonEmptyWord(w) == Len(w) > 0

extractWords(text) ==
    SelectSeq(SplitWhitespace(ReplaceNonWord(toLowerCase(text)), 1, <<>>),
              NonEmptyWord)

countWords(text) == Len(extractWords(text))

(***************************************************************************)
(* The inverted index.                                                     *)
(***************************************************************************)
DocWords(doc) ==
    ToSet(extractWords(doc.title)) \cup ToSet(extractWords(doc.content))

\* a faulty variant: the title is left out of the index
indexDocumentContentOnly(idx, doc) ==
    LET words == ToSet(extractWords(doc.content))
    IN  [w \in (DOMAIN idx) \cup words |->
            IF w \in words
            THEN (IF w \in DOMAIN idx THEN idx[w] ELSE {}) \cup {doc.id}
            ELSE idx[w]]

indexDocument(idx, doc) ==
    LET words == DocWords(doc)
    IN  [w \in (DOMAIN idx) \cup words |->
            IF w \in words
            THEN (IF w \in DOMAIN idx THEN idx[w] ELSE {}) \cup {doc.id}
            ELSE idx[w]]

\* a faulty variant: a term whose posting set becomes empty stays a key
removeFromIndexKeepKeys(idx, doc) ==
    LET touched == DocWords(doc) \cap (DOMAIN idx)
    IN  [w \in DOMAIN idx |->
            IF w \in touched THEN idx[w] \ {doc.id} ELSE idx[w]]

\* a faulty variant: only the terms of the content are removed
removeFromIndexContentOnly(idx, doc) ==
    LET touched == ToSet(extractWords(doc.content)) \cap (DOMAIN idx)
        after == [w \in DOMAIN idx |->
                    IF w \in touched THEN idx[w] \ {doc.id} ELSE idx[w]]
        emptied == {w \in touched : after[w] = {}}
    IN  [w \in (DOMAIN idx) \ emptied |-> after[w]]

removeFromIndex(idx, doc) ==
    LET touched == DocWords(doc) \cap (DOMAIN idx)
        after == [w \in DOMAIN idx |->
                    IF w \in touched THEN idx[w] \ {doc.id} ELSE idx[w]]
        emptied == {w \in touched : after[w] = {}}
    IN  [w \in (DOMAIN idx) \ emptied |-> after[w]]

findDocumentsByWord(idx, word) ==
    LET w == toLowerCase(word)
    IN  IF w \in DOMAIN idx THEN idx[w] ELSE {}

RECURSIVE SumPostings(_, _)
SumPostings(idx, keys) ==
    IF keys = {} THEN 0
    ELSE LET w == CHOOSE k \in keys : TRUE
         IN  Cardinality(idx[w]) + SumPostings(idx, keys \ {w})

getIndexStats(idx) ==
    [uniqueWords |-> Cardinality(DOMAIN idx),
     totalPostings |-> SumPostings(idx, DOMAIN idx)]

(***************************************************************************)
(* The document store.  Each operation takes the store (docs, idx) and     *)
(* gives the store after it and what it returns.                           *)
(***************************************************************************)
NewDocument(id, input, t) ==
    [id |-> id,
     title |-> input.title,
     content |-> input.content,
     author |-> input.author,
     tags |-> input.tags,
     wordCount |-> countWords(input.content),
     characterCount |-> Len(input.content),
     createdAt |-> t,
     updatedAt |-> t,
     version |-> 1]

createDocument(docs, idx, id, input, t) ==
    LET doc == NewDocument(id, input, t)
    IN  [documents |-> [i \in (DOMAIN docs) \cup {id} |->
                            IF i = id THEN doc ELSE docs[i]],
         wordIndex |-> indexDocument(idx, doc),
         result |-> Some(doc)]

getDocument(docs, id) ==
    IF id \in DOMAIN docs THEN Some(docs[id]) ELSE None

\* a faulty variant: the counts are not recomputed with the content
UpdatedDocumentStaleCounts(doc, updates, t) ==
    LET d1 == IF IsSome(updates.title)
              THEN [doc EXCEPT !.title = Get(updates.title)]
              ELSE doc
        d2 == IF IsSome(updates.content)
              THEN [d1 EXCEPT !.content = Get(updates.content)]
              ELSE d1
    IN  [d2 EXCEPT !.updatedAt = t, !.version = doc.version + 1]

\* a faulty variant: the version is not incremented
UpdatedDocumentSameVersion(doc, updates, t) ==
    LET d1 == IF IsSome(updates.title)
              THEN [doc EXCEPT !.title = Get(updates.title)]
              ELSE doc
        d2 == IF IsSome(updates.content)
              THEN [d1 EXCEPT !.content = Get(updates.content),
                              !.wordCount = countWords(Get(updates.content)),
                              !.characterCount = Len(Get(updates.content))]
              ELSE d1
    IN  [d2 EXCEPT !.updatedAt = t]

UpdatedDocument(doc, updates, t) ==
    LET d1 == IF IsSome(updates.title)
              THEN [doc EXCEPT !.title = Get(updates.title)]
              ELSE doc
        d2 == IF IsSome(updates.content)
              THEN [d1 EXCEPT !.content = Get(updates.content),
                              !.wordCount = countWords(Get(updates.content)),
                              !.characterCount = Len(Get(updates.content))]
              ELSE d1
    IN  [d2 EXCEPT !.updatedAt = t, !.version = doc.version + 1]

updateDocument(docs, idx, id, updates, t) ==
    IF id \notin DOMAIN docs
    THEN [documents |-> docs, wordIndex |-> idx, result |-> None]
    ELSE LET doc == UpdatedDocument(docs[id], updates, t)
         IN  [documents |-> [docs EXCEPT ![id] = doc],
              wordIndex |-> indexDocument(removeFromIndex(idx, docs[id]), doc),
              result |-> Some(doc)]

\* a faulty variant: deleting a missing id reports success
deleteDocumentAlwaysTrue(docs, idx, id) ==
    IF id \notin DOMAIN docs
    THEN [documents |-> docs, wordIndex |-> idx, result |-> TRUE]
    ELSE [documents |-> [i \in (DOMAIN docs) \ {id} |-> docs[i]],
          wordIndex |-> removeFromIndex(idx, docs[id]),
          result |-> TRUE]

deleteDocument(docs, idx, id) ==
    IF id \notin DOMAIN docs
    THEN [documents |-> docs, wordIndex |-> idx, result |-> FALSE]
    ELSE [documents |-> [i \in (DOMAIN docs) \ {id} |-> docs[i]],
          wordIndex |-> removeFromIndex(idx, docs[id]),
          result |-> TRUE]

PatchedDocument(doc, patch, t) ==
    LET d1 == IF IsSome(patch.title)
              THEN [doc EXCEPT !.title = Get(patch.title)]
              ELSE doc
        d2 == IF IsSome(patch.author)
              THEN [d1 EXCEPT !.author = patch.author]
              ELSE d1
        d3 == IF IsSome(patch.tags)
              THEN [d2 EXCEPT !.tags = patch.tags]
              ELSE d2
    IN  [d3 EXCEPT !.updatedAt = t, !.version = doc.version + 1]

\* a faulty variant: the index is left as it was
patchDocumentNoReindex(docs, idx, id, patch, t) ==
    IF id \notin DOMAIN docs
    THEN [documents |-> docs, wordIndex |-> idx, result |-> None]
    ELSE LET doc == PatchedDocument(docs[id], patch, t)
         IN  [documents |-> [docs EXCEPT ![id] = doc],
              wordIndex |-> idx,
              result |-> Some(doc)]

patchDocument(docs, idx, id, patch, t) ==
    IF id \notin DOMAIN docs
    THEN [documents |-> docs, wordIndex |-> idx, result |-> None]
    ELSE LET old == docs[id]
             titleChanged == IsSome(patch.title) /\ Get(patch.title) # old.title
             doc == PatchedDocument(old, patch, t)
         IN  [documents |-> [docs EXCEPT ![id] = doc],
              wordIndex |-> IF titleChanged
                            THEN indexDocument(removeFromIndex(idx, old), doc)
                            ELSE idx,
              result |-> Some(doc)]

(***************************************************************************)
(* ETags (utils/etag.ts).  The string "v<version>-<hash>" in double quotes *)
(* is the pair of its version and its hash.  An If-Match header is a       *)
(* sequence of lexical items: an ETag, a comma, a blank, the weak prefix   *)
(* W/, the star, or anything else.                                         *)
(***************************************************************************)
\* createHash('md5').update(`${id}-${version}-${updatedAt}`).digest('hex').substring(0, 8)
Digest(id, version, updatedAt) == (id + 2 * version + updatedAt) % DigestRange

\* a faulty variant: the ETag does not carry the version
generateETagHashOnly(doc) ==
    [version |-> 0, hash |-> Digest(doc.id, doc.version, doc.updatedAt)]

generateETag(doc) ==
    [version |-> doc.version, hash |-> Digest(doc.id, doc.version, doc.updatedAt)]

ETagItem(etag) == [kind |-> "etag", version |-> etag.version, hash |-> etag.hash]
CommaItem == [kind |-> "comma", version |-> 0, hash |-> 0]
BlankItem == [kind |-> "blank", version |-> 0, hash |-> 0]
WeakItem == [kind |-> "weak", version |-> 0, hash |-> 0]
StarItem == [kind |-> "star", version |-> 0, hash |-> 0]
JunkItem == [kind |-> "junk", version |-> 0, hash |-> 0]

\* header.split(',') from position i on; cur is the piece being read
RECURSIVE SplitComma(_, _, _)
SplitComma(header, i, cur) ==
    IF i > Len(header) THEN <<cur>>
    ELSE IF header[i] = CommaItem
         THEN <<cur>> \o SplitComma(header, i + 1, <<>>)
         ELSE SplitComma(header, i + 1, Append(cur, header[i]))

RECURSIVE TrimStart(_)
TrimStart(s) ==
    IF Len(s) > 0 /\ s[1] = BlankItem THEN TrimStart(Tail(s)) ELSE s

RECURSIVE TrimEnd(_)
TrimEnd(s) ==
    IF Len(s) > 0 /\ s[Len(s)] = BlankItem
    THEN TrimEnd(SubSeq(s, 1, Len(s) - 1))
    ELSE s

trim(s) == TrimEnd(TrimStart(s))

\* s.replace(/^W\//, '')
StripWeak(s) == IF Len(s) > 0 /\ s[1] = WeakItem THEN Tail(s) ELSE s

\* a faulty variant: the entries of the header are not trimmed
validateIfMatchNoTrim(ifMatch, doc) ==
    IF ~IsSome(ifMatch) \/ Get(ifMatch) = <<>> THEN TRUE
    ELSE IF Get(ifMatch) = <<StarItem>> THEN TRUE
    ELSE LET currentETag == <<ETagItem(generateETag(doc))>>
             requestedETags == SplitComma(Get(ifMatch), 1, <<>>)
         IN  \E i \in 1..Len(requestedETags) :
                StripWeak(requestedETags[i]) = StripWeak(currentETag)

\* a faulty variant: every If-Match header is accepted
validateIfMatchAny(ifMatch, doc) == TRUE

validateIfMatch(ifMatch, doc) ==
    IF ~IsSome(ifMatch) \/ Get(ifMatch) = <<>> THEN TRUE
    ELSE IF Get(ifMatch) = <<StarItem>> THEN TRUE
    ELSE LET currentETag == <<ETagItem(generateETag(doc))>>
             pieces == SplitComma(Get(ifMatch), 1, <<>>)
             requestedETags == [i \in 1..Len(pieces) |-> trim(pieces[i])]
         IN  \E i \in 1..Len(requestedETags) :
                StripWeak(requestedETags[i]) = StripWeak(currentETag)

(***************************************************************************)
(* Regular expressions as the change engine and the search use them: the   *)
(* source text is compiled into a sequence of elements (a literal          *)
(* character, any character, end of input, word boundary); there are no    *)
(* quantifiers, so a match at a position is unique.  Offsets are 0-based   *)
(* as in the source: offset p is before the character text[p + 1].         *)
(***************************************************************************)
RegexSpecial ==
    {".", "*", "+", "?", "^", "$", "{", "}", "(", ")", "|", "[", "]", "\\"}

\* str.replace(/[.*+?^${}()|[\]\\]/g, ...)
RECURSIVE escapeRegex(_)
escapeRegex(str) ==
    IF Len(str) = 0 THEN <<>>
    ELSE (IF Head(str) \in RegexSpecial
          THEN <<"\\", Head(str)>>
          ELSE <<Head(str)>>) \o escapeRegex(Tail(str))

RegexElem(kind, ch) == [kind |-> kind, ch |-> ch]

\* new RegExp(source): the elements of the source from position i on
RECURSIVE CompileRegExp(_, _)
CompileRegExp(source, i) ==
    IF i > Len(source) THEN <<>>
    ELSE IF source[i] = "\\" /\ i < Len(source)
         THEN <<IF source[i + 1] = "b"
                THEN RegexElem("boundary", "")
                ELSE RegexElem("literal", source[i + 1])>>
              \o CompileRegExp(source, i + 2)
         ELSE <<CASE source[i] = "." -> RegexElem("any", "")
                  [] source[i] = "$" -> RegexElem("end", "")
                  [] OTHER -> RegexElem("literal", source[i])>>
              \o CompileRegExp(source, i + 1)

NewRegExp(source, flags) ==
    [elems |-> CompileRegExp(source, 1),
     global |-> "g" \in flags,
     ignoreCase |-> "i" \in flags]

CharMatches(c, ch, ignoreCase) ==
    IF ignoreCase THEN toLowerCaseChar(c) = toLowerCaseChar(ch) ELSE c = ch

IsWordBoundary(text, p) ==
    LET before == p >= 1 /\ IsWordChar(text[p])
        after == p < Len(text) /\ IsWordChar(text[p + 1])
    IN  before # after

\* the offset at which elements k.. of the pattern end when matched at
\* offset p, or -1 when they do not match there
RECURSIVE MatchEnd(_, _, _, _)
MatchEnd(text, re, k, p) ==
    IF k > Len(re.elems) THEN p
    ELSE LET e == re.elems[k]
         IN  CASE e.kind = "literal" ->
                    IF p < Len(text) /\ CharMatches(text[p + 1], e.ch, re.ignoreCase)
                    THEN MatchEnd(text, re, k + 1, p + 1)
                    ELSE -1
               [] e.kind = "any" ->
                    IF p < Len(text) THEN MatchEnd(text, re, k + 1, p + 1) ELSE -1
               [] e.kind = "end" ->
                    IF p = Len(text) THEN MatchEnd(text, re, k + 1, p) ELSE -1
               [] OTHER ->
                    IF IsWordBoundary(text, p) THEN MatchEnd(text, re, k + 1, p) ELSE -1

NoMatch == [index |-> -1, length |-> 0, text |-> <<>>]

\* RegExp.prototype.exec from lastIndex: the leftmost match at or after it
RECURSIVE RegExpExec(_, _, _)
RegExpExec(text, re, lastIndex) ==
    IF lastIndex > Len(text) THEN NoMatch
    ELSE LET e == MatchEnd(text, re, 1, lastIndex)
         IN  IF e >= 0
             THEN [index |-> lastIndex,
                   length |-> e - lastIndex,
                   text |-> SubSeq(text, lastIndex + 1, e)]
             ELSE RegExpExec(text, re, lastIndex + 1)

\* the successive matches of a global pattern from lastIndex on; after an
\* empty match the engine (String.prototype.match / replace) or the caller
\* (findAllMatches) advances lastIndex by one
RECURSIVE GlobalMatches(_, _, _)
GlobalMatches(text, re, lastIndex) ==
    LET m == RegExpExec(text, re, lastIndex)
    IN  IF m.index < 0 THEN <<>>
        ELSE <<m>> \o GlobalMatches(text, re,
                        IF m.length = 0
                        THEN m.index + 1
                        ELSE m.index + m.length)

\* String.prototype.match with a global pattern: the matches (null: none)
StringMatch(text, re) == GlobalMatches(text, re, 0)

\* GetSubstitution of String.prototype.replace, for a pattern without
\* capture groups: dollar-dollar, dollar-ampersand, dollar-backtick and
\* dollar-quote are expanded, the rest is literal.  The backtick and the
\* single quote are the characters named "backtick" and "quote".
RECURSIVE GetSubstitution(_, _, _, _, _)
GetSubstitution(template, i, matched, before, after) ==
    IF i > Len(template) THEN <<>>
    ELSE IF template[i] = "$" /\ i < Len(template)
               /\ template[i + 1] \in {"$", "&", "backtick", "quote"}
         THEN (CASE template[i + 1] = "$" -> <<"$">>
                 [] template[i + 1] = "&" -> matched
                 [] template[i + 1] = "backtick" -> before
                 [] OTHER -> after)
              \o GetSubstitution(template, i + 2, matched, before, after)
         ELSE <<template[i]>>
              \o GetSubstitution(template, i + 1, matched, before, after)

\* the result of replacing matches k.. of ms, text being copied from
\* offset `from` on
RECURSIVE ReplaceMatches(_, _, _, _, _)
ReplaceMatches(text, ms, k, from, template) ==
    IF k > Len(ms) THEN SubSeq(text, from + 1, Len(text))
    ELSE LET m == ms[k]
         IN  SubSeq(text, from + 1, m.index)
             \o GetSubstitution(template, 1, m.text,
                                SubSeq(text, 1, m.index),
                                SubSeq(text, m.index + m.length + 1, Len(text)))
             \o ReplaceMatches(text, ms, k + 1, m.index + m.length, template)

\* String.prototype.replace(pattern, replaceText)
StringReplace(text, re, template) ==
    LET all == GlobalMatches(text, re, 0)
        ms == IF re.global THEN all
              ELSE IF Len(all) > 0 THEN <<all[1]>> ELSE <<>>
    IN  ReplaceMatches(text, ms, 1, 0, template)

(***************************************************************************)
(* The change engine (services/change.service.ts).                         *)
(***************************************************************************)
OrDefault(o, d) == IF IsSome(o) THEN Get(o) ELSE d

buildPattern(change) ==
    LET matchCase == OrDefault(change.matchCase, TRUE)
        matchWholeWord == OrDefault(change.matchWholeWord, FALSE)
        escaped == escapeRegex(change.searchText)
        pattern == IF matchWholeWord
                   THEN <<"\\", "b">> \o escaped \o <<"\\", "b">>
                   ELSE escaped
    IN  NewRegExp(pattern, IF matchCase THEN {"g"} ELSE {"g", "i"})

\* a faulty variant: an occurrence alone asks for the slow path
usesAdvancedTargetingAnyOccurrence(change) ==
    \/ IsSome(change.startIndex)
    \/ IsSome(change.endIndex)
    \/ IsSome(change.beforeContext)
    \/ IsSome(change.afterContext)
    \/ IsSome(change.occurrence)

usesAdvancedTargeting(change) ==
    \/ IsSome(change.startIndex)
    \/ IsSome(change.endIndex)
    \/ IsSome(change.beforeContext)
    \/ IsSome(change.afterContext)
    \/ (change.replaceAll = Some(FALSE) /\ IsSome(change.occurrence))

ChangeResult(change, matchesFound, replacementsMade, positions) ==
    [searchText |-> change.searchText,
     replaceText |-> change.replaceText,
     matchesFound |-> matchesFound,
     replacementsMade |-> replacementsMade,
     positions |-> positions]

\* a faulty variant: no early return when nothing matches
applyFastPathNoEarlyReturn(content, change) ==
    LET replaceAll == OrDefault(change.replaceAll, TRUE)
        pattern == buildPattern(change)
        matchesFound == Len(StringMatch(content, pattern))
    IN  IF replaceAll
        THEN [newContent |-> StringReplace(content, pattern, change.replaceText),
              result |-> ChangeResult(change, matchesFound, matchesFound, None)]
        ELSE [newContent |->
                 StringReplace(content, [pattern EXCEPT !.global = FALSE],
                               change.replaceText),
              result |-> ChangeResult(change, matchesFound, 1, None)]

applyFastPath(content, change) ==
    LET replaceAll == OrDefault(change.replaceAll, TRUE)
        pattern == buildPattern(change)
        matchesFound == Len(StringMatch(content, pattern))
    IN  IF matchesFound = 0
        THEN [newContent |-> content,
              result |-> ChangeResult(change, 0, 0, None)]
        ELSE IF replaceAll
        THEN [newContent |-> StringReplace(content, pattern, change.replaceText),
              result |-> ChangeResult(change, matchesFound, matchesFound, None)]
        ELSE [newContent |->
                 StringReplace(content, [pattern EXCEPT !.global = FALSE],
                               change.replaceText),
              result |-> ChangeResult(change, matchesFound, 1, None)]

findAllMatches(content, pattern) == GlobalMatches(content, pattern, 0)

\* a faulty variant: the text after the match is not looked at
validateContextBeforeOnly(content, matchIndex, matchLength, beforeContext, afterContext) ==
    IF IsSome(beforeContext) /\ Len(Get(beforeContext)) > 0
    THEN LET beforeStart == matchIndex - Len(Get(beforeContext))
         IN  /\ beforeStart >= 0
             /\ SubSeq(content, beforeStart + 1, matchIndex) = Get(beforeContext)
    ELSE TRUE

validateContext(content, matchIndex, matchLength, beforeContext, afterContext) ==
    LET beforeOk ==
            IF IsSome(beforeContext) /\ Len(Get(beforeContext)) > 0
            THEN LET beforeStart == matchIndex - Len(Get(beforeContext))
                 IN  /\ beforeStart >= 0
                     /\ SubSeq(content, beforeStart + 1, matchIndex)
                            = Get(beforeContext)
            ELSE TRUE
        afterOk ==
            IF IsSome(afterContext) /\ Len(Get(afterContext)) > 0
            THEN LET afterEnd == matchIndex + matchLength + Len(Get(afterContext))
                 IN  /\ afterEnd <= Len(content)
                     /\ SubSeq(content, matchIndex + matchLength + 1, afterEnd)
                            = Get(afterContext)
            ELSE TRUE
    IN  beforeOk /\ afterOk

\* a faulty variant: a match that begins before endIndex is in the range
isInRangeByStart(matchIndex, matchLength, startIndex, endIndex) ==
    IF ~IsSome(startIndex) /\ ~IsSome(endIndex) THEN TRUE
    ELSE IF IsSome(startIndex) /\ matchIndex < Get(startIndex) THEN FALSE
    ELSE IF IsSome(endIndex) /\ matchIndex >= Get(endIndex) THEN FALSE
    ELSE TRUE

isInRange(matchIndex, matchLength, startIndex, endIndex) ==
    IF ~IsSome(startIndex) /\ ~IsSome(endIndex) THEN TRUE
    ELSE IF IsSome(startIndex) /\ matchIndex < Get(startIndex) THEN FALSE
    ELSE IF IsSome(endIndex) /\ matchIndex + matchLength > Get(endIndex) THEN FALSE
    ELSE TRUE

\* matches.sort((a, b) => b.index - a.index): insertion into a sorted list
RECURSIVE InsertByIndexDesc(_, _)
InsertByIndexDesc(m, sorted) ==
    IF Len(sorted) = 0 THEN <<m>>
    ELSE IF m.index > Head(sorted).index THEN <<m>> \o sorted
    ELSE <<Head(sorted)>> \o InsertByIndexDesc(m, Tail(sorted))

RECURSIVE SortByIndexDesc(_)
SortByIndexDesc(ms) ==
    IF Len(ms) = 0 THEN <<>>
    ELSE InsertByIndexDesc(Head(ms), SortByIndexDesc(Tail(ms)))

\* a faulty variant: each position is put behind the ones before it
RECURSIVE SpliceAllAppend(_, _, _, _, _)
SpliceAllAppend(newContent, positions, ms, k, replaceText) ==
    IF k > Len(ms)
    THEN [newContent |-> newContent, positions |-> positions]
    ELSE LET m == ms[k]
         IN  SpliceAllAppend(SubSeq(newContent, 1, m.index) \o replaceText
                         \o SubSeq(newContent, m.index + m.length + 1, Len(newContent)),
                       Append(positions, m.index), ms, k + 1, replaceText)

\* the loop that splices the replacements in, highest offset first
RECURSIVE SpliceAll(_, _, _, _, _)
SpliceAll(newContent, positions, ms, k, replaceText) ==
    IF k > Len(ms)
    THEN [newContent |-> newContent, positions |-> positions]
    ELSE LET m == ms[k]
         IN  SpliceAll(SubSeq(newContent, 1, m.index) \o replaceText
                         \o SubSeq(newContent, m.index + m.length + 1, Len(newContent)),
                       <<m.index>> \o positions, ms, k + 1, replaceText)

Eligible(content, change, m) ==
    /\ isInRange(m.index, m.length, change.startIndex, change.endIndex)
    /\ validateContext(content, m.index, m.length,
                       change.beforeContext, change.afterContext)

\* a faulty variant: the occurrence is counted from 0
matchesToReplaceZeroIndexed(change, eligibleMatches) ==
    LET replaceAll == OrDefault(change.replaceAll, TRUE)
        occurrence == change.occurrence
    IN  IF IsSome(change.startIndex) \/ IsSome(change.endIndex)
        THEN eligibleMatches
        ELSE IF ~replaceAll /\ IsSome(occurrence) /\ Get(occurrence) > 0
        THEN (IF Get(occurrence) < Len(eligibleMatches)
              THEN <<eligibleMatches[Get(occurrence) + 1]>>
              ELSE <<>>)
        ELSE IF ~replaceAll
        THEN <<eligibleMatches[1]>>
        ELSE eligibleMatches

\* a faulty variant: an occurrence is looked at before the range
matchesToReplaceOccurrenceFirst(change, eligibleMatches) ==
    LET replaceAll == OrDefault(change.replaceAll, TRUE)
        occurrence == change.occurrence
    IN  IF ~replaceAll /\ IsSome(occurrence) /\ Get(occurrence) > 0
        THEN (IF Get(occurrence) <= Len(eligibleMatches)
              THEN <<eligibleMatches[Get(occurrence)]>>
              ELSE <<>>)
        ELSE IF IsSome(change.startIndex) \/ IsSome(change.endIndex)
        THEN eligibleMatches
        ELSE IF ~replaceAll
        THEN <<eligibleMatches[1]>>
        ELSE eligibleMatches

matchesToReplace(change, eligibleMatches) ==
    LET replaceAll == OrDefault(change.replaceAll, TRUE)
        occurrence == change.occurrence
    IN  IF IsSome(change.startIndex) \/ IsSome(change.endIndex)
        THEN eligibleMatches
        ELSE IF ~replaceAll /\ IsSome(occurrence) /\ Get(occurrence) > 0
        THEN (IF Get(occurrence) <= Len(eligibleMatches)
              THEN <<eligibleMatches[Get(occurrence)]>>
              ELSE <<>>)
        ELSE IF ~replaceAll
        THEN <<eligibleMatches[1]>>
        ELSE eligibleMatches

\* a faulty variant: matchesFound counts the eligible matches only
applySlowPathCountEligible(content, change) ==
    LET pattern == buildPattern(change)
        allMatches == findAllMatches(content, pattern)
        IsEligible(m) == Eligible(content, change, m)
        eligibleMatches == SelectSeq(allMatches, IsEligible)
        done == IF Len(eligibleMatches) > 0
                THEN SpliceAll(content, <<>>,
                        SortByIndexDesc(matchesToReplace(change, eligibleMatches)),
                        1, change.replaceText)
                ELSE [newContent |-> content, positions |-> <<>>]
    IN  [newContent |-> done.newContent,
         result |-> ChangeResult(change, Len(eligibleMatches), Len(done.positions),
                        IF Len(done.positions) > 0
                        THEN Some(done.positions)
                        ELSE None)]

applySlowPath(content, change) ==
    LET pattern == buildPattern(change)
        allMatches == findAllMatches(content, pattern)
        matchesFound == Len(allMatches)
        IsEligible(m) == Eligible(content, change, m)
        eligibleMatches == SelectSeq(allMatches, IsEligible)
        done == IF Len(eligibleMatches) > 0
                THEN SpliceAll(content, <<>>,
                        SortByIndexDesc(matchesToReplace(change, eligibleMatches)),
                        1, change.replaceText)
                ELSE [newContent |-> content, positions |-> <<>>]
    IN  [newContent |-> done.newContent,
         result |-> ChangeResult(change, matchesFound, Len(done.positions),
                        IF Len(done.positions) > 0
                        THEN Some(done.positions)
                        ELSE None)]

applySingleChange(content, change) ==
    IF ~usesAdvancedTargeting(change)
    THEN applyFastPath(content, change)
    ELSE applySlowPath(content, change)

\* a faulty variant: the loop ends at the first change without a match
RECURSIVE ApplyChangesUntilNoMatch(_, _, _, _, _)
ApplyChangesUntilNoMatch(currentContent, results, totalReplacements, changes, k) ==
    IF k > Len(changes)
    THEN [newContent |-> currentContent,
          results |-> results,
          totalReplacements |-> totalReplacements]
    ELSE LET r == applySingleChange(currentContent, changes[k])
         IN  ApplyChangesUntilNoMatch(
                 r.newContent, Append(results, r.result),
                 totalReplacements + r.result.replacementsMade, changes,
                 IF r.result.matchesFound = 0 THEN Len(changes) + 1 ELSE k + 1)

applyChangesUntilNoMatch(content, changes) ==
    ApplyChangesUntilNoMatch(content, <<>>, 0, changes, 1)

\* the loop of applyChanges over changes k..
RECURSIVE ApplyChangesFrom(_, _, _, _, _)
ApplyChangesFrom(currentContent, results, totalReplacements, changes, k) ==
    IF k > Len(changes)
    THEN [newContent |-> currentContent,
          results |-> results,
          totalReplacements |-> totalReplacements]
    ELSE LET r == applySingleChange(currentContent, changes[k])
         IN  ApplyChangesFrom(r.newContent, Append(results, r.result),
                              totalReplacements + r.result.replacementsMade,
                              changes, k + 1)

applyChanges(content, changes) == ApplyChangesFrom(content, <<>>, 0, changes, 1)

(***************************************************************************)
(* Requests.  The inputs are drawn from small sets that exercise upper     *)
(* case, punctuation, words shared by title and content and by two         *)
(* documents, texts without any word, and changes on both paths.           *)
(***************************************************************************)
Ids == 1..MaxDocs

CreateInputs ==
    {[title |-> <<"A">>, content |-> <<"a", " ", "b">>,
      author |-> None, tags |-> None],
     [title |-> <<"b", ".">>, content |-> <<"b">>,
      author |-> Some("ann"), tags |-> Some(<<"t">>)]}

UpdateInputs ==
    {[title |-> None, content |-> Some(<<>>)],
     [title |-> Some(<<"a">>), content |-> None],
     [title |-> None, content |-> None]}

PatchInputs ==
    {[title |-> Some(<<".">>), author |-> None, tags |-> None],
     [title |-> None, author |-> Some("ann"), tags |-> Some(<<"t">>)]}

Change(searchText, replaceText) ==
    [searchText |-> searchText, replaceText |-> replaceText,
     matchCase |-> None, matchWholeWord |-> None, replaceAll |-> None,
     occurrence |-> None, startIndex |-> None, endIndex |-> None,
     beforeContext |-> None, afterContext |-> None]

ChangeBatches ==
    {<<Change(<<"z">>, <<"b">>)>>,
     <<Change(<<"b">>, <<"b">>)>>,
     <<[Change(<<"b">>, <<"a">>) EXCEPT !.replaceAll = Some(FALSE),
                                        !.occurrence = Some(1)],
       Change(<<"z">>, <<"a">>),
       [Change(<<"a">>, <<>>) EXCEPT !.startIndex = Some(1)]>>}

ETags == [version : 1..MaxVersion, hash : 0..(DigestRange - 1)]

\* the If-Match headers of the requests to the store as a whole
StoreHeaders == {None, Some(<<ETagItem([version |-> 1, hash |-> 0])>>)}

\* the If-Match headers of the requests that race for one document
IfMatchHeaders ==
    {None, Some(<<StarItem>>)}
    \cup {Some(<<ETagItem(e)>>) : e \in ETags}
    \cup {Some(<<WeakItem, ETagItem(e)>>) : e \in {x \in ETags : x.version = 1}}
    \cup {Some(<<JunkItem, CommaItem, BlankItem, ETagItem(e)>>) :
            e \in {x \in ETags : x.version = 2}}

(***************************************************************************)
(* The result of an operation: what a store function returned and, for a   *)
(* route, the reply.  status is the HTTP status (0: a direct call of a     *)
(* store function); found tells whether the store function returned a      *)
(* document (or true); etag is the ETag header of a reply, or currentEtag  *)
(* of a 412 reply.                                                         *)
(***************************************************************************)
Result(op, id, status, found) ==
    [op |-> op, id |-> id, status |-> status, found |-> found,
     doc |-> None, etag |-> None, ifMatch |-> None,
     previousVersion |-> 0, newVersion |-> 0, totalReplacements |-> 0,
     results |-> <<>>]

NoCall == [phase |-> "none"]

Init ==
    /\ documents = <<>>
    /\ wordIndex = <<>>
    /\ nextId = 0
    /\ now = 0
    /\ resp = Result("none", 0, 0, FALSE)
    /\ call = NoCall

\* the clock advances between two operations
Tick ==
    /\ now < MaxTime
    /\ now' = now + 1
    /\ UNCHANGED <<documents, wordIndex, nextId, resp, call>>

VersionsBounded(docs) == \A i \in DOMAIN docs : docs[i].version <= MaxVersion

\* POST /api/documents
PostDocument(input) ==
    /\ nextId < MaxDocs
    /\ LET r == createDocument(documents, wordIndex, nextId + 1, input, now)
       IN  /\ documents' = r.documents
           /\ wordIndex' = r.wordIndex
           /\ resp' = [Result("create", nextId + 1, 201, TRUE) EXCEPT
                          !.doc = r.result,
                          !.etag = Some(generateETag(Get(r.result)))]
    /\ nextId' = nextId + 1
    /\ UNCHANGED <<now, call>>

\* GET /api/documents/:id
GetDocumentRoute(id) ==
    /\ LET doc == getDocument(documents, id)
       IN  resp' = IF ~IsSome(doc)
                   THEN Result("get", id, 404, FALSE)
                   ELSE [Result("get", id, 200, TRUE) EXCEPT
                            !.doc = doc,
                            !.etag = Some(generateETag(Get(doc)))]
    /\ UNCHANGED <<documents, wordIndex, nextId, now, call>>

PreconditionFailed(op, id, ifMatch, doc) ==
    [Result(op, id, 412, TRUE) EXCEPT
        !.ifMatch = ifMatch,
        !.etag = Some(generateETag(doc))]

\* PATCH /api/documents/:id
PatchDocumentRoute(id, patch, ifMatch) ==
    /\ LET doc == getDocument(documents, id)
       IN  IF ~IsSome(doc)
           THEN /\ resp' = [Result("patch", id, 404, FALSE) EXCEPT
                               !.ifMatch = ifMatch]
                /\ UNCHANGED <<documents, wordIndex>>
           ELSE IF ~validateIfMatch(ifMatch, Get(doc))
           THEN /\ resp' = PreconditionFailed("patch", id, ifMatch, Get(doc))
                /\ UNCHANGED <<documents, wordIndex>>
           ELSE LET r == patchDocument(documents, wordIndex, id, patch, now)
                IN  /\ VersionsBounded(r.documents)
                    /\ documents' = r.documents
                    /\ wordIndex' = r.wordIndex
                    /\ resp' = [Result("patch", id, 200, TRUE) EXCEPT
                                   !.ifMatch = ifMatch,
                                   !.doc = r.result,
                                   !.etag = Some(generateETag(Get(r.result)))]
    /\ UNCHANGED <<nextId, now, call>>

\* DELETE /api/documents/:id
DeleteDocumentRoute(id) ==
    /\ LET r == deleteDocument(documents, wordIndex, id)
       IN  /\ documents' = r.documents
           /\ wordIndex' = r.wordIndex
           /\ resp' = Result("delete", id, IF r.result THEN 200 ELSE 404, r.result)
    /\ UNCHANGED <<nextId, now, call>>

\* a faulty variant: the document is written whatever the changes did
WriteChangesAlways(docs, idx, id, applied, t) ==
    updateDocument(docs, idx, id,
                   [title |-> None, content |-> Some(applied.newContent)], t)

\* if (totalReplacements > 0) { updateDocument(id, { content: newContent }) }
WriteChanges(docs, idx, id, applied, t) ==
    IF applied.totalReplacements > 0
    THEN updateDocument(docs, idx, id,
                        [title |-> None, content |-> Some(applied.newContent)], t)
    ELSE [documents |-> docs, wordIndex |-> idx, result |-> None]

\* the reply to an accepted apply-changes request, r being the store after
\* the write (if any)
ReplyChanges(id, ifMatch, previousVersion, applied, r, updatedDoc) ==
    /\ VersionsBounded(r.documents)
    /\ documents' = r.documents
    /\ wordIndex' = r.wordIndex
    /\ resp' = [Result("changes", id, 200, TRUE) EXCEPT
                   !.ifMatch = ifMatch,
                   !.doc = Some(updatedDoc),
                   !.etag = Some(generateETag(updatedDoc)),
                   !.previousVersion = previousVersion,
                   !.newVersion = updatedDoc.version,
                   !.totalReplacements = applied.totalReplacements,
                   !.results = applied.results]

\* the write of an accepted apply-changes request and the document read back
WriteAndReply(id, ifMatch, previousVersion, applied, r) ==
    ReplyChanges(id, ifMatch, previousVersion, applied, r,
                 Get(getDocument(r.documents, id)))

\* an accepted apply-changes request, applied being what applyChanges gave
AcceptChanges(id, ifMatch, previousVersion, applied) ==
    WriteAndReply(id, ifMatch, previousVersion, applied,
                  WriteChanges(documents, wordIndex, id, applied, now))

\* POST /api/documents/:id/changes
PostChanges(id, changes, ifMatch) ==
    /\ LET doc == getDocument(documents, id)
       IN  IF ~IsSome(doc)
           THEN /\ resp' = [Result("changes", id, 404, FALSE) EXCEPT
                               !.ifMatch = ifMatch]
                /\ UNCHANGED <<documents, wordIndex>>
           ELSE IF ~validateIfMatch(ifMatch, Get(doc))
           THEN /\ resp' = PreconditionFailed("changes", id, ifMatch, Get(doc))
                /\ UNCHANGED <<documents, wordIndex>>
           ELSE AcceptChanges(id, ifMatch, Get(doc).version,
                              applyChanges(Get(doc).content, changes))
    /\ UNCHANGED <<nextId, now, call>>

\* a direct call updateDocument(id, updates)
UpdateDocumentCall(id, updates) ==
    /\ LET r == updateDocument(documents, wordIndex, id, updates, now)
       IN  /\ VersionsBounded(r.documents)
           /\ documents' = r.documents
           /\ wordIndex' = r.wordIndex
           /\ resp' = [Result("updateDocument", id, 0, IsSome(r.result)) EXCEPT
                          !.doc = r.result]
    /\ UNCHANGED <<nextId, now, call>>

\* a direct call patchDocument(id, patch)
PatchDocumentCall(id, patch) ==
    /\ LET r == patchDocument(documents, wordIndex, id, patch, now)
       IN  /\ VersionsBounded(r.documents)
           /\ documents' = r.documents
           /\ wordIndex' = r.wordIndex
           /\ resp' = [Result("patchDocument", id, 0, IsSome(r.result)) EXCEPT
                          !.doc = r.result]
    /\ UNCHANGED <<nextId, now, call>>

\* the operations on the store, issued within one reading of the clock
Next ==
    \/ \E input \in CreateInputs : PostDocument(input)
    \/ \E id \in Ids : GetDocumentRoute(id)
    \/ \E id \in Ids, patch \in PatchInputs, ifMatch \in StoreHeaders :
          PatchDocumentRoute(id, patch, ifMatch)
    \/ \E id \in Ids : DeleteDocumentRoute(id)
    \/ \E id \in Ids, changes \in ChangeBatches, ifMatch \in StoreHeaders :
          PostChanges(id, changes, ifMatch)
    \/ \E id \in Ids, updates \in UpdateInputs : UpdateDocumentCall(id, updates)
    \/ \E id \in Ids, patch \in PatchInputs : PatchDocumentCall(id, patch)

Spec == Init /\ [][Next]_vars

\* the requests for documents over time: conditional requests with every
\* kind of If-Match header, the clock advancing between them
FirstInput == CHOOSE input \in CreateInputs : input.title = <<"A">>

FirstId == CHOOSE id \in Ids : \A other \in Ids : id <= other

NextConditional ==
    \/ Tick
    \/ PostDocument(FirstInput)
    \/ GetDocumentRoute(FirstId)
    \/ \E patch \in PatchInputs, ifMatch \in IfMatchHeaders :
          PatchDocumentRoute(FirstId, patch, ifMatch)
    \/ DeleteDocumentRoute(FirstId)
    \/ \E changes \in ChangeBatches, ifMatch \in IfMatchHeaders :
          PostChanges(FirstId, changes, ifMatch)

SpecConditional == Init /\ [][NextConditional]_vars

(***************************************************************************)
(* generateETag and validateIfMatch on their own: a document at some       *)
(* version, the same document at a later version, and the header a client  *)
(* builds from the ETag of the first.                                      *)
(***************************************************************************)
\* a document as createDocument and (version - 1) mutations leave it
DocumentAt(id, version, createdAt, updatedAt) ==
    [NewDocument(id, FirstInput, createdAt) EXCEPT
        !.version = version, !.updatedAt = updatedAt]

HeaderForms == {"exact", "weak", "list"}

HeaderOf(form, etag) ==
    CASE form = "exact" -> Some(<<ETagItem(etag)>>)
      [] form = "weak" -> Some(<<WeakItem, ETagItem(etag)>>)
      [] form = "list" -> Some(<<JunkItem, CommaItem, BlankItem, ETagItem(etag)>>)

ETagCalls ==
    {[phase |-> "start",
      doc |-> DocumentAt(id, v, t0, t1),
      later |-> DocumentAt(id, w, t0, t2),
      form |-> form, token |-> None, fresh |-> FALSE, stale |-> FALSE] :
        <<id, v, w, form>> \in
            {x \in Ids \X (1..MaxVersion) \X (1..MaxVersion) \X HeaderForms :
                x[2] < x[3]},
        <<t0, t1, t2>> \in
            {y \in (0..MaxTime) \X (0..MaxTime) \X (0..MaxTime) :
                y[1] <= y[2] /\ y[2] <= y[3]}}

InitETag ==
    /\ documents = <<>>
    /\ wordIndex = <<>>
    /\ nextId = 0
    /\ now = 0
    /\ resp = Result("none", 0, 0, FALSE)
    /\ call \in {c \in ETagCalls :
                    c.doc.version = 1 => c.doc.updatedAt = c.doc.createdAt}

\* the client reads the ETag of the document and keeps it as an If-Match header
GenerateToken ==
    /\ call.phase = "start"
    /\ call' = [call EXCEPT !.phase = "token",
                            !.token = HeaderOf(call.form, generateETag(call.doc))]
    /\ UNCHANGED <<documents, wordIndex, nextId, now, resp>>

\* the header is validated against the document as it was and as it is later
ValidateToken ==
    /\ call.phase = "token"
    /\ call' = [call EXCEPT !.phase = "done",
                            !.fresh = validateIfMatch(call.token, call.doc),
                            !.stale = validateIfMatch(call.token, call.later)]
    /\ UNCHANGED <<documents, wordIndex, nextId, now, resp>>

NextETag == GenerateToken \/ ValidateToken

SpecETag == InitETag /\ [][NextETag]_vars

(***************************************************************************)
(* The change engine on its own: one Change applied to one content,        *)
(* through applySingleChange and through each of the two paths.            *)
(***************************************************************************)
MaxContentLen == 3

Texts(chars, n) == UNION {[1..k -> chars] : k \in 0..n}

ChangeContents == Texts({"a", "A", "."}, MaxContentLen)

SearchTexts == {<<"a">>, <<".">>, <<"a", ".">>, <<"a", "a">>}

ReplaceTexts == {<<>>, <<"b">>, <<"$", "$">>, <<"$", "&">>, <<"a", ".">>}

\* the targeting options of a Change (none, or one of them)
Targetings ==
    {[Change(<<>>, <<>>) EXCEPT !.startIndex = startIndex,
                                !.endIndex = endIndex,
                                !.occurrence = occurrence,
                                !.beforeContext = beforeContext,
                                !.afterContext = afterContext] :
        <<startIndex, endIndex, occurrence, beforeContext, afterContext>> \in
            {<<None, None, None, None, None>>,
             <<Some(0), None, None, None, None>>,
             <<Some(1), None, None, None, None>>,
             <<None, Some(2), None, None, None>>,
             <<None, None, Some(2), None, None>>,
             <<None, None, None, Some(<<"a">>), None>>,
             <<None, None, None, None, Some(<<".">>)>>}}

Changes ==
    {[target EXCEPT !.searchText = searchText,
                    !.replaceText = replaceText,
                    !.matchCase = matchCase,
                    !.matchWholeWord = matchWholeWord,
                    !.replaceAll = replaceAll] :
        target \in Targetings,
        searchText \in SearchTexts,
        replaceText \in ReplaceTexts,
        matchCase \in {None, Some(FALSE)},
        matchWholeWord \in {None, Some(TRUE)},
        replaceAll \in {None, Some(FALSE)}}

NoOutcome(content, change) ==
    [newContent |-> content, result |-> ChangeResult(change, 0, 0, None)]

InitChange ==
    /\ documents = <<>>
    /\ wordIndex = <<>>
    /\ nextId = 0
    /\ now = 0
    /\ resp = Result("none", 0, 0, FALSE)
    /\ call \in {[phase |-> "start", content |-> content, change |-> change,
                  single |-> NoOutcome(content, change),
                  fast |-> NoOutcome(content, change),
                  slow |-> NoOutcome(content, change)] :
                    content \in ChangeContents, change \in Changes}

\* applySingleChange(content, change), and each path on the same arguments
ApplySingleChangeCall ==
    /\ call.phase = "start"
    /\ call' = [call EXCEPT
                   !.phase = "done",
                   !.single = applySingleChange(call.content, call.change),
                   !.fast = applyFastPath(call.content, call.change),
                   !.slow = applySlowPath(call.content, call.change)]
    /\ UNCHANGED <<documents, wordIndex, nextId, now, resp>>

NextChange == ApplySingleChangeCall

SpecChange == InitChange /\ [][NextChange]_vars

(***************************************************************************)
(* Properties of the store and its index (specification Spec).             *)
(***************************************************************************)
Live == DOMAIN documents

\* the terms of a document: the tokens of its title and of its content
TermsOf(doc) ==
    {extractWords(doc.title)[i] : i \in 1..Len(extractWords(doc.title))}
    \cup {extractWords(doc.content)[i] : i \in 1..Len(extractWords(doc.content))}

LiveTerms == UNION {TermsOf(documents[id]) : id \in Live}

ProbeTerms == {<<"a">>, <<"b">>, <<"z">>, <<"a", "b">>}

TotalPostings(idx) == getIndexStats(idx).totalPostings

\* C1: index exactness.  In every reachable state, for every term t,
\* findDocumentsByWord(t) is exactly the set of ids of the live documents
\* whose tokenized title or tokenized content contains t.
C1_IndexExact ==
    \A t \in (DOMAIN wordIndex) \cup LiveTerms \cup ProbeTerms :
        findDocumentsByWord(wordIndex, t) =
            {id \in Live : t \in TermsOf(documents[id])}

\* two live documents after an updateDocument that gave one of them a new
\* title: one term is posted for both, another for one of them only
C1_Witness ==
    /\ resp.op = "updateDocument" /\ resp.found
    /\ Cardinality(Live) = 2
    /\ Get(resp.doc).title = <<"a">>
    /\ \E t \in DOMAIN wordIndex : Cardinality(wordIndex[t]) = 2
    /\ \E t \in DOMAIN wordIndex : Cardinality(wordIndex[t]) = 1

\* C3: a document is created at version 1; every successful updateDocument
\* or patchDocument increases its version by exactly 1; the version of a live
\* document never decreases, and the document never changes while keeping
\* its version, so no version value is taken twice; ids are not reused.
C3_VersionSteps ==
    [][ /\ \A id \in (DOMAIN documents') \ Live :
              documents'[id].version = 1 /\ id > nextId
        /\ \A id \in Live \cap DOMAIN documents' :
              /\ documents'[id].version \in
                     {documents[id].version, documents[id].version + 1}
              /\ documents'[id] # documents[id] =>
                     documents'[id].version = documents[id].version + 1
        /\ \A id \in Live :
              ((\E updates \in UpdateInputs : UpdateDocumentCall(id, updates))
               \/ (\E patch \in PatchInputs : PatchDocumentCall(id, patch)))
              => /\ resp'.found
                 /\ Get(resp'.doc).version = documents[id].version + 1
                 /\ documents'[id].version = documents[id].version + 1
      ]_vars

\* a document that patchDocument has just taken to the highest version
C3_Witness ==
    /\ resp.op = "patchDocument" /\ resp.found
    /\ resp.id \in Live
    /\ documents[resp.id].version = MaxVersion

\* C6 (amended): after deleteDocument(id) on a live document returns true, the
\* id is in no posting set, getDocument(id) is not-found, and the total
\* posting count has decreased by exactly the number of unique terms of the
\* document -- strictly when the document has a term, not at all when it
\* has none.
C6_DeleteRemovesPostings ==
    [][ \A id \in Live :
          DeleteDocumentRoute(id) =>
            /\ resp'.found /\ resp'.status = 200
            /\ \A w \in DOMAIN wordIndex' : id \notin wordIndex'[w]
            /\ getDocument(documents', id) = None
            /\ TotalPostings(wordIndex') =
                   TotalPostings(wordIndex) - Cardinality(TermsOf(documents[id]))
            /\ TermsOf(documents[id]) # {} =>
                   TotalPostings(wordIndex') < TotalPostings(wordIndex)
      ]_vars

\* a document with two terms, one of them shared with the other live
\* document, has just been deleted
C6_Witness ==
    /\ resp.op = "delete" /\ resp.found
    /\ Cardinality(Live) = 1
    /\ TotalPostings(wordIndex) = 1
    /\ resp.id \notin Live

\* C6 as stated: the total posting count strictly decreases, by the number
\* of unique terms of the deleted document.
C6_StrictDecrease ==
    [][ \A id \in Live :
          DeleteDocumentRoute(id) =>
            /\ TotalPostings(wordIndex') < TotalPostings(wordIndex)
            /\ TotalPostings(wordIndex') =
                   TotalPostings(wordIndex) - Cardinality(TermsOf(documents[id]))
      ]_vars

\* C7: in every reachable state no term is a key of the index with an empty
\* posting set, and getIndexStats().uniqueWords is the number of distinct
\* terms occurring in live documents.
C7_NoEmptyPostingSet ==
    /\ \A w \in DOMAIN wordIndex : wordIndex[w] # {}
    /\ getIndexStats(wordIndex).uniqueWords = Cardinality(LiveTerms)

\* a delete has removed the last posting of the term "a" while the term "b"
\* is still posted for the remaining document
C7_Witness ==
    /\ resp.op = "delete" /\ resp.found
    /\ <<"a">> \notin DOMAIN wordIndex
    /\ <<"b">> \in DOMAIN wordIndex
    /\ getIndexStats(wordIndex).uniqueWords = 1

\* C8: getDocument, updateDocument, patchDocument and deleteDocument on an
\* id that is not live return not-found and leave the documents and the
\* index unchanged; the routes answer 404 for a missing id, also when the
\* request carries an If-Match header.
C8_NotFound ==
    [][ \A id \in Ids \ Live :
          /\ getDocument(documents, id) = None
          /\ ((\E updates \in UpdateInputs : UpdateDocumentCall(id, updates))
              \/ (\E patch \in PatchInputs : PatchDocumentCall(id, patch)))
             => /\ ~resp'.found /\ resp'.doc = None
                /\ documents' = documents /\ wordIndex' = wordIndex
          /\ DeleteDocumentRoute(id)
             => /\ ~resp'.found /\ resp'.status = 404
                /\ documents' = documents /\ wordIndex' = wordIndex
          /\ GetDocumentRoute(id)
             => /\ resp'.status = 404 /\ resp'.doc = None
                /\ documents' = documents /\ wordIndex' = wordIndex
          /\ \A ifMatch \in StoreHeaders :
               ((\E patch \in PatchInputs : PatchDocumentRoute(id, patch, ifMatch))
                \/ (\E changes \in ChangeBatches : PostChanges(id, changes, ifMatch)))
               => /\ resp'.status = 404
                  /\ documents' = documents /\ wordIndex' = wordIndex
      ]_vars

\* an apply-changes request with an If-Match header for a document that was
\* deleted, while another document is live, has been answered 404
C8_Witness ==
    /\ resp.op = "changes" /\ resp.status = 404
    /\ IsSome(resp.ifMatch)
    /\ resp.id <= nextId /\ resp.id \notin Live
    /\ Live # {}

(***************************************************************************)
(* Properties of the conditional requests (specification SpecConditional). *)
(***************************************************************************)
\* the header presents the ETag as its only entry, as a weak ETag, or as
\* an entry of a comma-separated list
Presents(ifMatch, etag) == \E form \in HeaderForms : ifMatch = HeaderOf(form, etag)

\* the header presents some ETag (it is neither absent nor the wildcard)
PresentsToken(ifMatch) == \E etag \in ETags : Presents(ifMatch, etag)

\* this step is a PATCH or apply-changes request for the first document
\* carrying the header
RequestWith(ifMatch) ==
    \/ \E patch \in PatchInputs : PatchDocumentRoute(FirstId, patch, ifMatch)
    \/ \E changes \in ChangeBatches : PostChanges(FirstId, changes, ifMatch)

\* the last reply accepted a request with this header and wrote the document
WroteWith(ifMatch) ==
    /\ resp.op \in {"patch", "changes"}
    /\ resp.id = FirstId
    /\ resp.status = 200
    /\ resp.ifMatch = ifMatch
    /\ resp.op = "changes" => resp.totalReplacements > 0

\* C2 (amended): a PATCH or apply-changes request for a live document is
\* applied only if its If-Match header is absent, is the wildcard, or
\* presents the document's current ETag at the moment of the write (and
\* then the presented version is the current version); otherwise it is
\* answered 412 with the current ETag and the documents and the index are
\* unchanged.  Once a request presenting a token has been accepted and has
\* written the document, the next request presenting the same token is
\* answered 412.
C2_ConditionalWrite ==
    [][ LET ifMatch == resp'.ifMatch
            doc == documents[FirstId]
            accepted == \/ ifMatch = None
                        \/ ifMatch = Some(<<StarItem>>)
                        \/ Presents(ifMatch, generateETag(doc))
        IN  (FirstId \in Live /\ resp'.op \in {"patch", "changes"}
             /\ RequestWith(ifMatch))
            => /\ resp'.status \in {200, 412}
               /\ resp'.status = 200 <=> accepted
               /\ (resp'.status = 200 /\ PresentsToken(ifMatch)) =>
                      \E etag \in ETags : /\ Presents(ifMatch, etag)
                                          /\ etag.version = doc.version
               /\ resp'.status = 412 =>
                      /\ resp'.etag = Some(generateETag(doc))
                      /\ documents' = documents
                      /\ wordIndex' = wordIndex
               /\ (PresentsToken(ifMatch) /\ WroteWith(ifMatch)) =>
                      resp'.status = 412
      ]_vars

\* a PATCH presenting the ETag of version 1 has been answered 412 with the
\* current ETag of the document, which is at a later version
C2_Witness ==
    /\ resp.op = "patch" /\ resp.status = 412
    /\ FirstId \in Live
    /\ documents[FirstId].version > 1
    /\ \E etag \in ETags : /\ etag.version = 1
                           /\ resp.ifMatch = Some(<<ETagItem(etag)>>)
    /\ resp.etag = Some(generateETag(documents[FirstId]))

\* C2 as stated: a request presenting a token is applied only if the token
\* is the current one, otherwise answered 412 with the current token and
\* nothing changed; and of two mutating requests presenting the same token,
\* the one processed after an accepted one is answered 412.
C2_OnlyFirstApplied ==
    [][ LET ifMatch == resp'.ifMatch
            doc == documents[FirstId]
        IN  (FirstId \in Live /\ resp'.op \in {"patch", "changes"}
             /\ PresentsToken(ifMatch) /\ RequestWith(ifMatch))
            => /\ resp'.status = 200 => Presents(ifMatch, generateETag(doc))
               /\ resp'.status # 200 =>
                      /\ resp'.status = 412
                      /\ resp'.etag = Some(generateETag(doc))
                      /\ documents' = documents
                      /\ wordIndex' = wordIndex
               /\ (resp.op \in {"patch", "changes"} /\ resp.id = FirstId
                   /\ resp.status = 200 /\ resp.ifMatch = ifMatch) =>
                      resp'.status = 412
      ]_vars

\* C9: an apply-changes request that is accepted writes the document if and
\* only if totalReplacements > 0; then the version increases by exactly 1
\* for the whole batch and newVersion = previousVersion + 1; when
\* totalReplacements = 0 the document (content, version, updatedAt), its
\* ETag and the index are unchanged and newVersion = previousVersion.
C9_WritesIffReplaced ==
    [][ \A changes \in ChangeBatches :
          (FirstId \in Live /\ resp'.op = "changes" /\ resp'.status = 200
           /\ PostChanges(FirstId, changes, resp'.ifMatch))
          => LET before == documents[FirstId]
                 after == documents'[FirstId]
                 applied == applyChanges(before.content, changes)
             IN  /\ resp'.totalReplacements = applied.totalReplacements
                 /\ resp'.previousVersion = before.version
                 /\ resp'.newVersion = after.version
                 /\ resp'.totalReplacements > 0 <=> documents' # documents
                 /\ resp'.totalReplacements > 0 =>
                       /\ after.version = before.version + 1
                       /\ resp'.newVersion = resp'.previousVersion + 1
                       /\ after.content = applied.newContent
                 /\ resp'.totalReplacements = 0 =>
                       /\ after = before
                       /\ wordIndex' = wordIndex
                       /\ generateETag(after) = generateETag(before)
                       /\ resp'.etag = Some(generateETag(before))
                       /\ resp'.newVersion = resp'.previousVersion
      ]_vars

\* a batch of three changes that made two replacements and one step of the
\* version, answered after the clock has advanced
C9_Witness ==
    /\ resp.op = "changes" /\ resp.status = 200
    /\ Len(resp.results) = 3
    /\ resp.totalReplacements = 2
    /\ resp.newVersion = resp.previousVersion + 1
    /\ Get(resp.doc).updatedAt > Get(resp.doc).createdAt

(***************************************************************************)
(* Properties of the ETag functions (specification SpecETag).              *)
(***************************************************************************)
\* C4: the header built from generateETag(doc) validates against doc, and
\* does not validate against the same document at any later version,
\* whatever the updatedAt timestamps (and the digests) are.
C4_TokenRoundTrip ==
    call.phase = "done" => call.fresh /\ ~call.stale

\* the ETag of version N is checked against version N + 1 of the document,
\* whose digest is the same
C4_Witness ==
    /\ call.phase = "done"
    /\ call.form = "exact"
    /\ call.later.version = call.doc.version + 1
    /\ generateETag(call.later).hash = generateETag(call.doc).hash
    /\ call.later.updatedAt > call.doc.updatedAt

(***************************************************************************)
(* Properties of the change engine (specification SpecChange).             *)
(***************************************************************************)
\* the search text occurs in the content at offset p, under the matching
\* options of the change
OccursAt(content, change, p) ==
    LET searchText == change.searchText
        ignoreCase == ~OrDefault(change.matchCase, TRUE)
    IN  /\ p + Len(searchText) <= Len(content)
        /\ \A k \in 1..Len(searchText) :
              IF ignoreCase
              THEN toLowerCaseChar(content[p + k]) = toLowerCaseChar(searchText[k])
              ELSE content[p + k] = searchText[k]
        /\ OrDefault(change.matchWholeWord, FALSE) =>
              /\ IsWordBoundary(content, p)
              /\ IsWordBoundary(content, p + Len(searchText))

HasMatch(content, change) == \E p \in 0..Len(content) : OccursAt(content, change, p)

\* C5: for a replace-all Change without targeting, applyFastPath and
\* applySlowPath give the same newContent, matchesFound and
\* replacementsMade.
C5_PathEquivalence ==
    (/\ call.phase = "done"
     /\ OrDefault(call.change.replaceAll, TRUE)
     /\ ~usesAdvancedTargeting(call.change))
    => /\ call.fast.newContent = call.slow.newContent
       /\ call.fast.result.matchesFound = call.slow.result.matchesFound
       /\ call.fast.result.replacementsMade = call.slow.result.replacementsMade

\* C10: when the search text of a Change has no match in the content,
\* applySingleChange (and each path) returns the content unchanged with
\* matchesFound = 0 and replacementsMade = 0.
C10_ZeroMatchNoOp ==
    (call.phase = "done" /\ ~HasMatch(call.content, call.change))
    => \A outcome \in {call.single, call.fast, call.slow} :
          /\ outcome.newContent = call.content
          /\ outcome.result.matchesFound = 0
          /\ outcome.result.replacementsMade = 0

\* a first-occurrence change on the fast path whose search text "a." has no
\* match in a content that holds an "a" and a "."
C10_Witness ==
    /\ call.phase = "done"
    /\ ~HasMatch(call.content, call.change)
    /\ ~usesAdvancedTargeting(call.change)
    /\ call.change.replaceAll = Some(FALSE)
    /\ call.change.searchText = <<"a", ".">>
    /\ call.content = <<".", "a">>
    /\ call.single.newContent = call.content

(***************************************************************************)
(* applyChanges on its own: one batch of Changes applied to one content.   *)
(***************************************************************************)
MaxBatchLen == 3

BatchContents == Texts({"a", "b"}, MaxBatchLen)

BatchChanges ==
    {Change(<<"a">>, <<"b">>),
     Change(<<"b">>, <<"a", "a">>),
     Change(<<"z">>, <<"a">>),
     [Change(<<"a">>, <<>>) EXCEPT !.replaceAll = Some(FALSE),
                                   !.occurrence = Some(2)],
     [Change(<<"b">>, <<"z">>) EXCEPT !.startIndex = Some(1)]}

Batches == UNION {[1..n -> BatchChanges] : n \in 0..MaxBatchLen}

NoBatchOutcome(content) ==
    [newContent |-> content, results |-> <<>>, totalReplacements |-> 0]

InitBatch ==
    /\ documents = <<>>
    /\ wordIndex = <<>>
    /\ nextId = 0
    /\ now = 0
    /\ resp = Result("none", 0, 0, FALSE)
    /\ call \in {[phase |-> "start", content |-> content, changes |-> changes,
                  out |-> NoBatchOutcome(content)] :
                    content \in BatchContents, changes \in Batches}

\* applyChanges(content, changes)
ApplyChangesCall ==
    /\ call.phase = "start"
    /\ call' = [call EXCEPT !.phase = "done",
                            !.out = applyChanges(call.content, call.changes)]
    /\ UNCHANGED <<documents, wordIndex, nextId, now, resp>>

NextBatch == ApplyChangesCall

SpecBatch == InitBatch /\ [][NextBatch]_vars

\* the content after the first k changes of the list, each applied by
\* applySingleChange to the content after the changes before it
RECURSIVE ContentAfter(_, _, _)
ContentAfter(content, changes, k) ==
    IF k = 0 THEN content
    ELSE applySingleChange(ContentAfter(content, changes, k - 1),
                           changes[k]).newContent

RECURSIVE SumReplacementsMade(_, _)
SumReplacementsMade(results, k) ==
    IF k = 0 THEN 0
    ELSE results[k].replacementsMade + SumReplacementsMade(results, k - 1)

\* C11: applyChanges is the left fold of applySingleChange: change k is
\* applied to the output of change k-1, results has one entry per Change in
\* input order, totalReplacements is the sum of the replacementsMade, and
\* a Change without a match does not stop the Changes after it.
C11_LeftFold ==
    call.phase = "done" =>
        LET changes == call.changes
            out == call.out
        IN  /\ Len(out.results) = Len(changes)
            /\ \A k \in 1..Len(changes) :
                  out.results[k] =
                      applySingleChange(
                          ContentAfter(call.content, changes, k - 1),
                          changes[k]).result
            /\ out.newContent = ContentAfter(call.content, changes, Len(changes))
            /\ out.totalReplacements =
                   SumReplacementsMade(out.results, Len(out.results))

\* a change that depends on the one before it, after a change without a
\* match: "a" -> "b", then "z" (no match), then "b" -> "aa"
C11_Witness ==
    /\ call.phase = "done"
    /\ call.content = <<"a">>
    /\ Len(call.changes) = 3
    /\ call.out.results[1].replacementsMade = 1
    /\ call.out.results[2].matchesFound = 0
    /\ call.out.results[3].replacementsMade = 1
    /\ call.out.newContent = <<"a", "a">>
    /\ call.out.totalReplacements = 2

(***************************************************************************)
(* Queries on the store: getDocumentsByIds, findDocumentsByWords,          *)
(* listDocuments (storage.ts) and the search service.  A posting set is    *)
(* iterated in insertion order; `order`, a sequence holding every id once, *)
(* stands for that order.                                                  *)
(***************************************************************************)
\* ids.map((id) => documents.get(id)).filter((doc) => doc !== undefined)
RECURSIVE getDocumentsByIdsFrom(_, _, _)
getDocumentsByIdsFrom(docs, ids, k) ==
    IF k > Len(ids) THEN <<>>
    ELSE (IF ids[k] \in DOMAIN docs THEN <<docs[ids[k]]>> ELSE <<>>)
         \o getDocumentsByIdsFrom(docs, ids, k + 1)

getDocumentsByIds(docs, ids) == getDocumentsByIdsFrom(docs, ids, 1)

\* Array.from(set), the set being iterated in the given order
RECURSIVE ArrayFromSet(_, _, _)
ArrayFromSet(set, order, k) ==
    IF k > Len(order) THEN <<>>
    ELSE (IF order[k] \in set THEN <<order[k]>> ELSE <<>>)
         \o ArrayFromSet(set, order, k + 1)

\* postingLists.sort((a, b) => a.size - b.size): stable insertion
RECURSIVE InsertBySize(_, _)
InsertBySize(set, sorted) ==
    IF sorted = <<>> THEN <<set>>
    ELSE IF Cardinality(Head(sorted)) <= Cardinality(set)
         THEN <<Head(sorted)>> \o InsertBySize(set, Tail(sorted))
         ELSE <<set>> \o sorted

RECURSIVE SortBySize(_)
SortBySize(lists) ==
    IF lists = <<>> THEN <<>>
    ELSE InsertBySize(Head(lists), SortBySize(Tail(lists)))

\* the loop of findDocumentsByWords over postingLists[i..]
RECURSIVE IntersectFrom(_, _, _)
IntersectFrom(postingLists, i, result) ==
    IF i > Len(postingLists) \/ result = {} THEN result
    ELSE IntersectFrom(postingLists, i + 1, result \cap postingLists[i])

\* the posting sets of the words that have one
RECURSIVE PostingListsFrom(_, _, _)
PostingListsFrom(idx, words, k) ==
    IF k > Len(words) THEN <<>>
    ELSE LET w == toLowerCase(words[k])
         IN  (IF w \in DOMAIN idx /\ idx[w] # {} THEN <<idx[w]>> ELSE <<>>)
             \o PostingListsFrom(idx, words, k + 1)

\* a faulty variant: the documents holding at least one of the words
findDocumentsByWordsAny(idx, words) ==
    UNION {findDocumentsByWord(idx, words[k]) : k \in 1..Len(words)}

findDocumentsByWords(idx, words) ==
    IF Len(words) = 0 THEN {}
    ELSE IF Len(words) = 1 THEN findDocumentsByWord(idx, words[1])
    ELSE LET postingLists == PostingListsFrom(idx, words, 1)
         IN  IF Len(postingLists) # Len(words) THEN {}
             ELSE LET sorted == SortBySize(postingLists)
                  IN  IntersectFrom(sorted, 2, sorted[1])

(***************************************************************************)
(* The search service (services/search.service.ts).                        *)
(***************************************************************************)
Max(a, b) == IF a >= b THEN a ELSE b
Min(a, b) == IF a <= b THEN a ELSE b

Ellipsis == <<".", ".", ".">>

extractContext(content, matchStart, matchEnd, contextSize) ==
    LET start == Max(0, matchStart - contextSize)
        end == Min(Len(content), matchEnd + contextSize)
        context == SubSeq(content, start + 1, end)
        c1 == IF start > 0 THEN Ellipsis \o context ELSE context
    IN  IF end < Len(content) THEN c1 \o Ellipsis ELSE c1

SearchMatch(doc, m, contextSize) ==
    [documentId |-> doc.id,
     documentTitle |-> doc.title,
     position |-> m.index,
     context |-> extractContext(doc.content, m.index, m.index + m.length,
                                contextSize),
     matchedText |-> m.text]

\* a faulty variant: the loop over the matches ignores maxResults
RECURSIVE SearchLoopUnbounded(_, _, _, _, _, _)
SearchLoopUnbounded(doc, pattern, contextSize, maxResults, results, lastIndex) ==
    LET m == RegExpExec(doc.content, pattern, lastIndex)
    IN  IF m.index < 0 THEN results
        ELSE SearchLoopUnbounded(doc, pattern, contextSize, maxResults,
                       Append(results, SearchMatch(doc, m, contextSize)),
                       IF m.length = 0 THEN m.index + 1 ELSE m.index + m.length)

searchInDocumentUnbounded(doc, pattern, contextSize, maxResults, currentResults) ==
    SearchLoopUnbounded(doc, pattern, contextSize, maxResults, currentResults, 0)

\* the while loop of searchInDocument, searchPattern.lastIndex being lastIndex
RECURSIVE SearchLoop(_, _, _, _, _, _)
SearchLoop(doc, pattern, contextSize, maxResults, results, lastIndex) ==
    LET m == RegExpExec(doc.content, pattern, lastIndex)
    IN  IF m.index < 0 THEN results
        ELSE IF Len(results) >= maxResults THEN results
        ELSE SearchLoop(doc, pattern, contextSize, maxResults,
                        Append(results, SearchMatch(doc, m, contextSize)),
                        IF m.length = 0 THEN m.index + 1 ELSE m.index + m.length)

searchInDocument(doc, pattern, contextSize, maxResults, currentResults) ==
    SearchLoop(doc, pattern, contextSize, maxResults, currentResults, 0)

\* a faulty variant: without documentIds every stored document is a candidate
getCandidateDocumentsAll(docs, idx, query, documentIds, order) ==
    IF IsSome(documentIds) /\ Len(Get(documentIds)) > 0
    THEN getDocumentsByIds(docs, Get(documentIds))
    ELSE getDocumentsByIds(docs, ArrayFromSet(DOMAIN docs, order, 1))

getCandidateDocuments(docs, idx, query, documentIds, order) ==
    LET queryWords == extractWords(query)
    IN  IF IsSome(documentIds) /\ Len(Get(documentIds)) > 0
        THEN getDocumentsByIds(docs, Get(documentIds))
        ELSE IF Len(queryWords) = 0 THEN <<>>
        ELSE IF Len(queryWords) = 1
        THEN getDocumentsByIds(docs,
                 ArrayFromSet(findDocumentsByWord(idx, queryWords[1]), order, 1))
        ELSE getDocumentsByIds(docs,
                 ArrayFromSet(findDocumentsByWords(idx, queryWords), order, 1))

\* the loop of search over candidates[k..]; scanned counts the documents
\* searchInDocument was called on
RECURSIVE SearchFrom(_, _, _, _, _, _, _)
SearchFrom(candidates, k, pattern, contextSize, maxResults, results, scanned) ==
    IF k > Len(candidates) \/ Len(results) >= maxResults
    THEN [results |-> results, scanned |-> scanned]
    ELSE SearchFrom(candidates, k + 1, pattern, contextSize, maxResults,
                    searchInDocument(candidates[k], pattern, contextSize,
                                     maxResults, results),
                    scanned + 1)

\* the response of search for its candidates; scanned is not part of it
SearchResponse(query, candidates, found) ==
    [query |-> query.query,
     totalMatches |-> Len(found.results),
     documentsSearched |-> Len(candidates),
     results |-> found.results,
     scanned |-> found.scanned]

SearchCandidates(query, candidates) ==
    SearchResponse(query, candidates,
        SearchFrom(candidates, 1,
                   NewRegExp(escapeRegex(query.query),
                             IF OrDefault(query.caseSensitive, FALSE)
                             THEN {"g"} ELSE {"g", "i"}),
                   OrDefault(query.contextSize, 50),
                   OrDefault(query.maxResults, 100), <<>>, 0))

search(docs, idx, query, order) ==
    SearchCandidates(query,
        getCandidateDocuments(docs, idx, query.query, query.documentIds, order))

(***************************************************************************)
(* SpecSearch: documents are created and deleted, and between two such     *)
(* operations a query (search, findDocumentsByWords) runs to completion:   *)
(* call holds the query and what it returned until the caller has it.      *)
(***************************************************************************)
SearchCreateInputs ==
    {[title |-> <<"A">>, content |-> <<"a", " ", "b", " ", "a">>,
      author |-> None, tags |-> None],
     [title |-> <<"b", ".">>, content |-> <<"b">>,
      author |-> None, tags |-> None],
     [title |-> <<"a">>, content |-> <<"B", " ", "b">>,
      author |-> None, tags |-> None]}

\* the orders in which a set of ids can have been filled
Orders == {o \in [1..MaxDocs -> Ids] : \A i, j \in 1..MaxDocs : o[i] = o[j] => i = j}

SearchTextsOfQueries ==
    {<<"a">>, <<"b">>, <<"B">>, <<"a", " ", "b">>, <<"b", " ", "a">>,
     <<"a", " ", "z">>, <<".">>, <<"z">>}

DocumentIdLists ==
    {None, Some(<<>>), Some(<<2>>), Some(<<1, 2>>), Some(<<1, 1>>)}

SearchQueries ==
    [query : SearchTextsOfQueries,
     documentIds : DocumentIdLists,
     caseSensitive : {None, Some(TRUE)},
     contextSize : {None},
     maxResults : {None, Some(1), Some(2)}]

WordLists == Texts({<<"a">>, <<"b">>, <<"A">>, <<"z">>}, 3)

IdsOf(docs) == [k \in 1..Len(docs) |-> docs[k].id]

\* POST /api/search
SearchCall(query, order) ==
    /\ call = NoCall
    /\ call' = [phase |-> "search", query |-> query,
                candidates |-> IdsOf(getCandidateDocuments(documents, wordIndex,
                                  query.query, query.documentIds, order)),
                out |-> search(documents, wordIndex, query, order)]
    /\ UNCHANGED <<documents, wordIndex, nextId, now, resp>>

FindDocumentsByWordsCall(words) ==
    /\ call = NoCall
    /\ call' = [phase |-> "findDocumentsByWords", words |-> words,
                out |-> findDocumentsByWords(wordIndex, words)]
    /\ UNCHANGED <<documents, wordIndex, nextId, now, resp>>

\* the caller has the result of the query
Return ==
    /\ call # NoCall
    /\ call' = NoCall
    /\ UNCHANGED <<documents, wordIndex, nextId, now, resp>>

NextSearch ==
    \/ call = NoCall /\ \E input \in SearchCreateInputs : PostDocument(input)
    \/ call = NoCall /\ \E id \in Ids : DeleteDocumentRoute(id)
    \/ \E query \in SearchQueries, order \in Orders : SearchCall(query, order)
    \/ \E words \in WordLists : FindDocumentsByWordsCall(words)
    \/ Return

SpecSearch == Init /\ [][NextSearch]_vars

Posting(w) == IF w \in DOMAIN wordIndex THEN wordIndex[w] ELSE {}

\* the ids held by the posting set of every one of the terms
InAllPostings(terms) ==
    {i \in Ids : \A k \in 1..Len(terms) : i \in Posting(terms[k])}

Searched == call.phase = "search"

\* C12: a search without documentIds has no candidate when the query has
\* no term, and otherwise has as candidates, each once, the documents of
\* the posting set of its term or of the intersection of the posting sets
\* of its terms; documentsSearched is the size of that set, and without
\* candidates there is no result.
C12_CandidateSelection ==
    (Searched /\ ~IsSome(call.query.documentIds)) =>
        LET terms == extractWords(call.query.query)
            expected == IF Len(terms) = 0 THEN {} ELSE InAllPostings(terms)
        IN  /\ ToSet(call.candidates) = expected
            /\ Len(call.candidates) = Cardinality(expected)
            /\ call.out.documentsSearched = Cardinality(expected)
            /\ expected = {} =>
                   call.out.results = <<>> /\ call.out.totalMatches = 0

\* a query of two terms whose intersection is smaller than a posting set,
\* in a store of two documents
C12_Witness ==
    /\ Searched /\ ~IsSome(call.query.documentIds)
    /\ Len(extractWords(call.query.query)) = 2
    /\ Cardinality(DOMAIN documents) = 2
    /\ \E w \in DOMAIN wordIndex : Cardinality(wordIndex[w]) = 2
    /\ call.out.documentsSearched = 1
    /\ call.out.totalMatches = 1

\* C13: whenever a search is given documentIds, the empty list included,
\* its candidates are the live documents with those ids, in the order of
\* the list, every result belongs to a document of the list, and
\* documentsSearched is at most the length of the list.
C13_ScopedToDocumentIds ==
    (Searched /\ IsSome(call.query.documentIds)) =>
        LET ids == Get(call.query.documentIds)
        IN  /\ call.candidates = IdsOf(getDocumentsByIds(documents, ids))
            /\ \A k \in 1..Len(call.out.results) :
                   call.out.results[k].documentId \in ToSet(ids)
            /\ call.out.documentsSearched <= Len(ids)

\* the query text stands in content at offset p
QueryOccursAt(content, text, ignoreCase, p) ==
    /\ p + Len(text) <= Len(content)
    /\ \A k \in 1..Len(text) :
          IF ignoreCase
          THEN toLowerCaseChar(content[p + k]) = toLowerCaseChar(text[k])
          ELSE content[p + k] = text[k]

\* the number of occurrences of the query text in content from offset p
\* on, taken from the left and not overlapping
RECURSIVE CountOccurrences(_, _, _, _)
CountOccurrences(content, text, ignoreCase, p) ==
    IF p + Len(text) > Len(content) THEN 0
    ELSE IF QueryOccursAt(content, text, ignoreCase, p)
         THEN 1 + CountOccurrences(content, text, ignoreCase, p + Len(text))
         ELSE CountOccurrences(content, text, ignoreCase, p + 1)

\* the number of occurrences of the query of the call in its first k
\* candidates
RECURSIVE OccurrencesUpTo(_)
OccurrencesUpTo(k) ==
    IF k = 0 THEN 0
    ELSE OccurrencesUpTo(k - 1)
         + CountOccurrences(documents[call.candidates[k]].content,
                            call.query.query,
                            ~OrDefault(call.query.caseSensitive, FALSE), 0)

\* C14: a search returns the occurrences of the query in its candidates up
\* to maxResults of them and no more, totalMatches is the length of
\* results, and a candidate is scanned only if the candidates before it
\* hold fewer than maxResults occurrences.
C14_ResultBound ==
    Searched =>
        LET maxResults == OrDefault(call.query.maxResults, 100)
            n == Len(call.candidates)
        IN  /\ Len(call.out.results) <= maxResults
            /\ Len(call.out.results) = Min(maxResults, OccurrencesUpTo(n))
            /\ call.out.totalMatches = Len(call.out.results)
            /\ call.out.scanned
                   = Cardinality({k \in 1..n : OccurrencesUpTo(k - 1) < maxResults})

\* the first of two candidates holds more occurrences than maxResults
\* allows, and the second, which holds one too, is not scanned
C14_Witness ==
    /\ Searched
    /\ call.query.maxResults = Some(1)
    /\ Len(call.candidates) = 2
    /\ OccurrencesUpTo(1) = 2
    /\ OccurrencesUpTo(2) > OccurrencesUpTo(1)
    /\ call.out.scanned = 1
    /\ call.out.totalMatches = 1

FoundByWords == call.phase = "findDocumentsByWords"

\* the ways of reordering a list of n words
Reorderings(n) == {o \in [1..n -> 1..n] : \A i, j \in 1..n : o[i] = o[j] => i = j}

\* C15: findDocumentsByWords gives no document for no word, what
\* findDocumentsByWord gives for one word, and for any words the live
\* documents that hold every one of them; the result lies in the posting
\* set of each word, is empty when a word has no posting, and is the same
\* for the words in any order.
C15_AllWords ==
    FoundByWords =>
        LET words == call.words
            n == Len(words)
        IN  /\ n = 0 => call.out = {}
            /\ n = 1 => call.out = findDocumentsByWord(wordIndex, words[1])
            /\ n >= 1 =>
                  call.out = {i \in DOMAIN documents :
                                 \A k \in 1..n :
                                    toLowerCase(words[k]) \in TermsOf(documents[i])}
            /\ \A k \in 1..n : call.out \subseteq Posting(toLowerCase(words[k]))
            /\ (\E k \in 1..n : Posting(toLowerCase(words[k])) = {}) => call.out = {}
            /\ \A o \in Reorderings(n) :
                  findDocumentsByWords(wordIndex, [k \in 1..n |-> words[o[k]]])
                      = call.out

\* three words, one of them in upper case, with posting sets of different
\* sizes: one document holds them all and another one only some
C15_Witness ==
    /\ FoundByWords
    /\ Len(call.words) = 3
    /\ <<"A">> \in ToSet(call.words)
    /\ Cardinality(call.out) = 1
    /\ \E k \in 1..3 : Cardinality(Posting(toLowerCase(call.words[k]))) = 2
    /\ \E k \in 1..3 : Cardinality(Posting(toLowerCase(call.words[k]))) = 1

(***************************************************************************)
(* SpecValidate: validateIfMatch on its own, for every If-Match header of  *)
(* up to MaxHeaderLen lexical items and documents of several ids,          *)
(* versions and times.                                                     *)
(***************************************************************************)
MaxHeaderLen == 3

HeaderItems ==
    {CommaItem, BlankItem, WeakItem, StarItem, JunkItem}
    \cup {ETagItem(e) : e \in [version : 1..2, hash : 0..1]}

Headers == {None} \cup {Some(h) : h \in Texts(HeaderItems, MaxHeaderLen)}

ValidateDocs ==
    {DocumentAt(id, v, 0, t) : id \in Ids, v \in 1..2, t \in 0..MaxTime}

InitValidate ==
    /\ documents = <<>>
    /\ wordIndex = <<>>
    /\ nextId = 0
    /\ now = 0
    /\ resp = Result("none", 0, 0, FALSE)
    /\ call \in [phase : {"start"}, doc : ValidateDocs, ifMatch : Headers,
                 out : {FALSE}]

ValidateIfMatchCall ==
    /\ call.phase = "start"
    /\ call' = [call EXCEPT !.phase = "done",
                            !.out = validateIfMatch(call.ifMatch, call.doc)]
    /\ UNCHANGED <<documents, wordIndex, nextId, now, resp>>

NextValidate == ValidateIfMatchCall

SpecValidate == InitValidate /\ [][NextValidate]_vars

\* header[i..j] is one of the comma-separated entries of the header
IsEntry(header, i, j) ==
    /\ i = 1 \/ header[i - 1] = CommaItem
    /\ j = Len(header) \/ header[j + 1] = CommaItem
    /\ \A k \in i..j : header[k] # CommaItem

\* header[i..j] is blanks, then the token with or without W/ before it,
\* then blanks
HoldsToken(header, i, j, token) ==
    \E a \in i..j, b \in i..j :
        /\ \A k \in i..(a - 1) : header[k] = BlankItem
        /\ \A k \in (b + 1)..j : header[k] = BlankItem
        /\ \/ a = b /\ header[a] = token
           \/ b = a + 1 /\ header[a] = WeakItem /\ header[b] = token

\* C16: validateIfMatch accepts a request without a token (no header, or
\* an empty one) and the header "*", and any other header exactly when one
\* of its comma-separated entries, trimmed and without a W/ prefix, is the
\* ETag computed from the id, version and updatedAt of the document.
C16_ValidateIfMatch ==
    call.phase = "done" =>
        LET token == ETagItem([version |-> call.doc.version,
                               hash |-> Digest(call.doc.id, call.doc.version,
                                               call.doc.updatedAt)])
        IN  IF ~IsSome(call.ifMatch) \/ Get(call.ifMatch) = <<>> THEN call.out
            ELSE IF Get(call.ifMatch) = <<StarItem>> THEN call.out
            ELSE LET header == Get(call.ifMatch)
                 IN  call.out <=>
                        \E i \in 1..Len(header), j \in 1..Len(header) :
                            /\ i <= j
                            /\ IsEntry(header, i, j)
                            /\ HoldsToken(header, i, j, token)

\* a header whose entry is a blank, W/ and the current ETag is accepted
C16_Witness ==
    /\ call.phase = "done"
    /\ call.out
    /\ IsSome(call.ifMatch)
    /\ Len(Get(call.ifMatch)) = 3
    /\ Get(call.ifMatch)[1] = BlankItem
    /\ Get(call.ifMatch)[2] = WeakItem
    /\ Get(call.ifMatch)[3] = ETagItem(generateETag(call.doc))

(***************************************************************************)
(* listDocuments (storage.ts) and GET /api/documents.  documents is        *)
(* iterated in the order of creation, which is the order of the ids.       *)
(***************************************************************************)
\* the collation of a character: blank and punctuation, then digits, then
\* letters, both cases of a letter together
PrimaryWeight(c) ==
    CASE c = " " -> 1
      [] c = "_" -> 2
      [] c = "." -> 3
      [] c = "0" -> 4
      [] c = "1" -> 5
      [] c \in {"a", "A"} -> 6
      [] c \in {"b", "B"} -> 7
      [] OTHER -> 8

\* lower case before upper case
CaseWeight(c) == IF c \in {"A", "B"} THEN 1 ELSE 0

Sign(n) == IF n < 0 THEN -1 ELSE IF n > 0 THEN 1 ELSE 0

\* the order of two texts by the weights of their characters from k on
RECURSIVE CompareWeights(_, _, _, _)
CompareWeights(a, b, k, primary) ==
    IF k > Len(a) /\ k > Len(b) THEN 0
    ELSE IF k > Len(a) THEN -1
    ELSE IF k > Len(b) THEN 1
    ELSE LET wa == IF primary THEN PrimaryWeight(a[k]) ELSE CaseWeight(a[k])
             wb == IF primary THEN PrimaryWeight(b[k]) ELSE CaseWeight(b[k])
         IN  IF wa # wb THEN Sign(wa - wb)
             ELSE CompareWeights(a, b, k + 1, primary)

\* a.localeCompare(b)
localeCompare(a, b) ==
    LET first == CompareWeights(a, b, 1, TRUE)
    IN  IF first # 0 THEN first ELSE CompareWeights(a, b, 1, FALSE)

\* the comparator given to docs.sort
CompareDocuments(a, b, sortBy, sortOrder) ==
    LET comparison ==
            CASE sortBy = "title" -> localeCompare(a.title, b.title)
              [] sortBy = "createdAt" -> a.createdAt - b.createdAt
              [] sortBy = "updatedAt" -> a.updatedAt - b.updatedAt
              [] OTHER -> 0
    IN  IF sortOrder = "asc" THEN comparison ELSE -comparison

\* Array.prototype.sort is stable: doc goes behind the documents that do
\* not come after it
RECURSIVE InsertDocument(_, _, _, _)
InsertDocument(doc, sorted, sortBy, sortOrder) ==
    IF sorted = <<>> THEN <<doc>>
    ELSE IF CompareDocuments(Head(sorted), doc, sortBy, sortOrder) <= 0
         THEN <<Head(sorted)>>
              \o InsertDocument(doc, Tail(sorted), sortBy, sortOrder)
         ELSE <<doc>> \o sorted

RECURSIVE SortDocuments(_, _, _, _)
SortDocuments(docs, k, sortBy, sortOrder) ==
    IF k = 0 THEN <<>>
    ELSE InsertDocument(docs[k], SortDocuments(docs, k - 1, sortBy, sortOrder),
                        sortBy, sortOrder)

\* Array.from(documents.values())
RECURSIVE DocumentValues(_, _)
DocumentValues(docs, id) ==
    IF id > MaxDocs THEN <<>>
    ELSE (IF id \in DOMAIN docs THEN <<docs[id]>> ELSE <<>>)
         \o DocumentValues(docs, id + 1)

\* Math.ceil(total / limit)
Ceil(total, limit) == (total + limit - 1) \div limit

\* docs.slice(start, end)
Slice(docs, start, end) ==
    SubSeq(docs, Min(start, Len(docs)) + 1, Min(end, Len(docs)))

Paginated(sorted, page, limit, start) ==
    [data |-> Slice(sorted, start, start + limit),
     pagination |-> [page |-> page, limit |-> limit, total |-> Len(sorted),
                     totalPages |-> Ceil(Len(sorted), limit)]]

\* a faulty variant: the slice of a page starts where the page ends
listDocumentsNextSlice(docs, query) ==
    LET page == OrDefault(query.page, 1)
        limit == OrDefault(query.limit, 10)
    IN  Paginated(SortDocuments(DocumentValues(docs, 1), Cardinality(DOMAIN docs),
                                OrDefault(query.sortBy, "createdAt"),
                                OrDefault(query.sortOrder, "desc")),
                  page, limit, page * limit)

listDocuments(docs, query) ==
    LET page == OrDefault(query.page, 1)
        limit == OrDefault(query.limit, 10)
    IN  Paginated(SortDocuments(DocumentValues(docs, 1), Cardinality(DOMAIN docs),
                                OrDefault(query.sortBy, "createdAt"),
                                OrDefault(query.sortOrder, "desc")),
                  page, limit, (page - 1) * limit)

(***************************************************************************)
(* SpecList: documents are created, patched and deleted over time, and     *)
(* between two such operations GET /api/documents is answered.             *)
(***************************************************************************)
ListCreateInputs ==
    {[title |-> <<"B">>, content |-> <<"a">>, author |-> None, tags |-> None],
     [title |-> <<"a">>, content |-> <<"a", " ", "b">>,
      author |-> None, tags |-> None]}

ListPatches ==
    {[title |-> Some(<<"A">>), author |-> None, tags |-> None],
     [title |-> None, author |-> Some("ann"), tags |-> None]}

ListQueries ==
    [page : {None, Some(1), Some(2), Some(3)},
     limit : {None, Some(1), Some(2)},
     sortBy : {None, Some("title"), Some("createdAt"), Some("updatedAt")},
     sortOrder : {None, Some("asc"), Some("desc")}]

\* GET /api/documents: the reply is the page, without an ETag header
ListDocumentsRoute(query) ==
    /\ call = NoCall
    /\ call' = [phase |-> "list", query |-> query, status |-> 200,
                etag |-> None, out |-> listDocuments(documents, query)]
    /\ UNCHANGED <<documents, wordIndex, nextId, now, resp>>

NextList ==
    \/ call = NoCall /\ Tick
    \/ call = NoCall /\ \E input \in ListCreateInputs : PostDocument(input)
    \/ call = NoCall /\ \E id \in Ids : GetDocumentRoute(id)
    \/ call = NoCall /\ \E id \in Ids, patch \in ListPatches :
                           PatchDocumentRoute(id, patch, None)
    \/ call = NoCall /\ \E id \in Ids : DeleteDocumentRoute(id)
    \/ \E query \in ListQueries : ListDocumentsRoute(query)
    \/ Return

SpecList == Init /\ [][NextList]_vars

Listed == call.phase = "list"

\* C17: a reply that returns documents gives, with each of them, the ETag
\* of the state it returns: the ETag header of a create, get, patch or
\* apply-changes reply is the ETag of its document, and a list reply
\* gives the ETag of every document of its page.
C17_TokenExposed ==
    /\ (resp.status \in {200, 201} /\ IsSome(resp.doc)) =>
           resp.etag = Some(generateETag(Get(resp.doc)))
    /\ Listed =>
           \A k \in 1..Len(call.out.data) :
               generateETag(call.out.data[k]) \in ToSet(call.etag)

\* the data of the pages 1..n of the query of the call, one after another
RECURSIVE PagesUpTo(_)
PagesUpTo(n) ==
    IF n = 0 THEN <<>>
    ELSE PagesUpTo(n - 1)
         \o listDocuments(documents, [call.query EXCEPT !.page = Some(n)]).data

\* a comes before b, or with it, in the order the query asks for
InOrder(a, b, sortBy, sortOrder) ==
    LET key == CASE sortBy = "title" -> localeCompare(a.title, b.title)
                 [] sortBy = "createdAt" -> a.createdAt - b.createdAt
                 [] sortBy = "updatedAt" -> a.updatedAt - b.updatedAt
    IN  IF sortOrder = "asc" THEN key <= 0 ELSE key >= 0

\* C20: listDocuments gives total = the number of live documents and
\* totalPages = ceil(total / limit); its pages 1..totalPages, one after
\* another, hold every live document once, in the order of the chosen key;
\* the data of a page is the slice [(page - 1) * limit, page * limit) of
\* that list, which is empty for a page beyond totalPages.
C20_Pagination ==
    Listed =>
        LET page == OrDefault(call.query.page, 1)
            limit == OrDefault(call.query.limit, 10)
            sortBy == OrDefault(call.query.sortBy, "createdAt")
            sortOrder == OrDefault(call.query.sortOrder, "desc")
            total == Cardinality(DOMAIN documents)
            pagination == call.out.pagination
            whole == PagesUpTo(pagination.totalPages)
        IN  /\ pagination.page = page /\ pagination.limit = limit
            /\ pagination.total = total
            /\ pagination.totalPages * limit >= total
            /\ (pagination.totalPages - 1) * limit < total
            /\ Len(whole) = total
            /\ \A id \in DOMAIN documents :
                   \E k \in 1..total : whole[k] = documents[id]
            /\ \A i \in 1..total, j \in 1..total :
                   i < j => InOrder(whole[i], whole[j], sortBy, sortOrder)
            /\ call.out.data
                   = SubSeq(whole, (page - 1) * limit + 1, Min(page * limit, total))
            /\ page > pagination.totalPages => call.out.data = <<>>

\* the second of two pages of one document each, by title: the document
\* created first comes last
C20_Witness ==
    /\ Listed
    /\ call.query.page = Some(2)
    /\ call.query.limit = Some(1)
    /\ call.query.sortBy = Some("title")
    /\ call.out.pagination.totalPages = 2
    /\ Len(call.out.data) = 1
    /\ call.out.data[1].id = 1

(***************************************************************************)
(* SpecPatch: patchDocument called on documents whose titles and contents  *)
(* share some terms and not others, the clock advancing between the calls. *)
(***************************************************************************)
PatchCreateInputs ==
    {[title |-> <<"0", " ", "a">>, content |-> <<"a", " ", "b">>,
      author |-> None, tags |-> None],
     [title |-> <<"b">>, content |-> <<"0", ".">>,
      author |-> Some("ann"), tags |-> None]}

TitlePatches ==
    {[title |-> Some(<<"1">>), author |-> None, tags |-> None],
     [title |-> Some(<<"0", " ", "a">>), author |-> None, tags |-> Some(<<"t">>)],
     [title |-> Some(<<"B", " ", "1">>), author |-> Some("bob"), tags |-> None],
     [title |-> None, author |-> Some("bob"), tags |-> None],
     [title |-> None, author |-> None, tags |-> None]}

NextPatch ==
    \/ Tick
    \/ \E input \in PatchCreateInputs : PostDocument(input)
    \/ \E id \in Ids, patch \in TitlePatches : PatchDocumentCall(id, patch)

SpecPatch == Init /\ [][NextPatch]_vars

WordsOf(text) == ToSet(extractWords(text))

IndexedUnder(idx, w, id) == w \in DOMAIN idx /\ id \in idx[w]

\* C18: a call of patchDocument on a live document leaves its content,
\* wordCount, characterCount, id and createdAt and every other document as
\* they were, adds 1 to its version and sets updatedAt to the time of the
\* call; after a change of title the document is indexed under every term
\* of the new title and under no term that only the old title held, and
\* it stays indexed under every term of its content.
C18_PatchFrame ==
    [][\A id \in Ids, patch \in TitlePatches :
          (PatchDocumentCall(id, patch) /\ id \in DOMAIN documents) =>
              LET old == documents[id]
                  new == documents'[id]
              IN  /\ resp'.found /\ resp'.doc = Some(new)
                  /\ new.content = old.content
                  /\ new.wordCount = old.wordCount
                  /\ new.characterCount = old.characterCount
                  /\ new.id = old.id
                  /\ new.createdAt = old.createdAt
                  /\ new.version = old.version + 1
                  /\ new.updatedAt = now
                  /\ DOMAIN documents' = DOMAIN documents
                  /\ \A other \in DOMAIN documents \ {id} :
                         documents'[other] = documents[other]
                  /\ (IsSome(patch.title) /\ Get(patch.title) # old.title) =>
                         /\ new.title = Get(patch.title)
                         /\ \A w \in WordsOf(new.title) :
                                IndexedUnder(wordIndex', w, id)
                         /\ \A w \in WordsOf(old.title)
                                       \ (WordsOf(new.title) \cup WordsOf(old.content)) :
                                ~IndexedUnder(wordIndex', w, id)
                  /\ \A w \in WordsOf(old.content) : IndexedUnder(wordIndex', w, id)
      ]_vars

\* the first document, patched at a later time than it was created, has
\* lost the term 0 of its old title, has the term 1 of its new title and
\* keeps the terms a and b of its content
C18_Witness ==
    /\ resp.op = "patchDocument" /\ resp.found
    /\ 1 \in DOMAIN documents
    /\ resp.doc = Some(documents[1])
    /\ documents[1].title = <<"1">>
    /\ documents[1].content = <<"a", " ", "b">>
    /\ documents[1].version = 2
    /\ documents[1].updatedAt > documents[1].createdAt
    /\ ~IndexedUnder(wordIndex, <<"0">>, 1)
    /\ IndexedUnder(wordIndex, <<"1">>, 1)
    /\ IndexedUnder(wordIndex, <<"a">>, 1)

\* the number of places of text where a word begins: a word character
\* that no word character precedes
WordStarts(text) ==
    Cardinality({i \in 1..Len(text) :
                    /\ IsWordChar(text[i])
                    /\ i = 1 \/ ~IsWordChar(text[i - 1])})

\* C19: every live document has characterCount = the length of its
\* content and wordCount = the number of words of its content, whatever
\* creations, content updates, metadata patches and deletions came before.
C19_DerivedMetadata ==
    \A id \in DOMAIN documents :
        /\ documents[id].characterCount = Len(documents[id].content)
        /\ documents[id].wordCount = WordStarts(documents[id].content)

\* an apply-changes request has just shortened the content of a document
\* that a metadata patch had touched before, and its counts have followed
C19_Witness ==
    /\ resp.op = "changes" /\ resp.status = 200 /\ resp.totalReplacements > 0
    /\ resp.id \in DOMAIN documents
    /\ documents[resp.id].version = 3
    /\ documents[resp.id].title = <<".">>
    /\ documents[resp.id].content = <<"a", " ">>
    /\ documents[resp.id].characterCount = 2
    /\ documents[resp.id].wordCount = 1

(***************************************************************************)
(* SpecTarget: one Change with any combination of the targeting options    *)
(* (range, occurrence, replaceAll, contexts) applied to one content.       *)
(***************************************************************************)
MaxTargetLen == 4

TargetContents == Texts({"a", "b"}, MaxTargetLen)

TargetChanges ==
    {[Change(searchText, replaceText) EXCEPT
          !.replaceAll = replaceAll,
          !.occurrence = occurrence,
          !.startIndex = startIndex,
          !.endIndex = endIndex,
          !.beforeContext = beforeContext,
          !.afterContext = afterContext] :
        searchText \in {<<"a">>, <<"a", "b">>},
        replaceText \in {<<>>, <<"b", "b">>, <<"$", "&">>},
        replaceAll \in {None, Some(TRUE), Some(FALSE)},
        occurrence \in {None, Some(1), Some(2), Some(3)},
        startIndex \in {None, Some(1), Some(3)},
        endIndex \in {None, Some(2), Some(3)},
        beforeContext \in {None, Some(<<>>), Some(<<"a">>)},
        afterContext \in {None, Some(<<"b">>)}}

InitTarget ==
    /\ documents = <<>>
    /\ wordIndex = <<>>
    /\ nextId = 0
    /\ now = 0
    /\ resp = Result("none", 0, 0, FALSE)
    /\ call \in {[phase |-> "start", content |-> content, change |-> change,
                  path |-> "none",
                  single |-> NoOutcome(content, change),
                  fast |-> NoOutcome(content, change),
                  slow |-> NoOutcome(content, change)] :
                    content \in TargetContents, change \in TargetChanges}

\* applySingleChange(content, change) with the path it takes, and each
\* path on the same arguments
ApplySingleChangePath ==
    /\ call.phase = "start"
    /\ call' = [call EXCEPT
                   !.phase = "done",
                   !.path = IF ~usesAdvancedTargeting(call.change)
                            THEN "fast" ELSE "slow",
                   !.single = applySingleChange(call.content, call.change),
                   !.fast = applyFastPath(call.content, call.change),
                   !.slow = applySlowPath(call.content, call.change)]
    /\ UNCHANGED <<documents, wordIndex, nextId, now, resp>>

NextTarget == ApplySingleChangePath

SpecTarget == InitTarget /\ [][NextTarget]_vars

Applied == call.phase = "done" /\ call.path # "none"

HasRange(change) == IsSome(change.startIndex) \/ IsSome(change.endIndex)

HasContext(change) == IsSome(change.beforeContext) \/ IsSome(change.afterContext)

\* the offsets of the matches of the search text in content from offset p
\* on: its occurrences from the left, none overlapping the one before
RECURSIVE MatchOffsets(_, _, _)
MatchOffsets(content, change, p) ==
    IF p + Len(change.searchText) > Len(content) THEN <<>>
    ELSE IF OccursAt(content, change, p)
         THEN <<p>> \o MatchOffsets(content, change, p + Len(change.searchText))
         ELSE MatchOffsets(content, change, p + 1)

InsideRange(change, p) ==
    /\ IsSome(change.startIndex) => p >= Get(change.startIndex)
    /\ IsSome(change.endIndex) =>
           p + Len(change.searchText) <= Get(change.endIndex)

\* text stands in content from offset p on
StandsAt(content, text, p) ==
    /\ p >= 0
    /\ p + Len(text) <= Len(content)
    /\ \A k \in 1..Len(text) : content[p + k] = text[k]

\* the contexts of the change surround the match at offset p
InsideContext(content, change, p) ==
    /\ IsSome(change.beforeContext) =>
           StandsAt(content, Get(change.beforeContext),
                    p - Len(Get(change.beforeContext)))
    /\ IsSome(change.afterContext) =>
           StandsAt(content, Get(change.afterContext),
                    p + Len(change.searchText))

\* those of the offsets whose match is eligible
RECURSIVE EligibleAmong(_, _, _)
EligibleAmong(content, change, offsets) ==
    IF offsets = <<>> THEN <<>>
    ELSE (IF InsideRange(change, Head(offsets))
             /\ InsideContext(content, change, Head(offsets))
          THEN <<Head(offsets)>> ELSE <<>>)
         \o EligibleAmong(content, change, Tail(offsets))

EligibleOffsets(content, change) ==
    EligibleAmong(content, change, MatchOffsets(content, change, 0))

\* the offsets at which the outcome reports a replacement
ReplacedOffsets(outcome) ==
    IF IsSome(outcome.result.positions) THEN Get(outcome.result.positions)
    ELSE <<>>

\* content with the matches at offsets[k..] replaced by replaceText as it
\* is written, the text before offset `from` being done
RECURSIVE Rebuilt(_, _, _, _, _, _)
Rebuilt(content, offsets, k, from, length, replaceText) ==
    IF k > Len(offsets) THEN SubSeq(content, from + 1, Len(content))
    ELSE SubSeq(content, from + 1, offsets[k]) \o replaceText
         \o Rebuilt(content, offsets, k + 1, offsets[k] + length, length,
                    replaceText)

RebuiltAt(content, change, offsets) ==
    Rebuilt(content, offsets, 1, 0, Len(change.searchText), change.replaceText)

\* C22: on the slow path a Change with a startIndex or an endIndex has all
\* its eligible matches replaced, whatever replaceAll and occurrence say;
\* without a range, replaceAll = false with an occurrence replaces the
\* eligible match of that number (none if there are fewer), replaceAll =
\* false alone replaces the first eligible match, and otherwise all
\* eligible matches are replaced.
C22_SelectionPrecedence ==
    (Applied /\ call.path = "slow") =>
        LET change == call.change
            eligible == EligibleOffsets(call.content, change)
            selected ==
                IF HasRange(change) THEN eligible
                ELSE IF change.replaceAll = Some(FALSE) /\ IsSome(change.occurrence)
                THEN (IF Get(change.occurrence) <= Len(eligible)
                      THEN <<eligible[Get(change.occurrence)]>> ELSE <<>>)
                ELSE IF change.replaceAll = Some(FALSE)
                THEN (IF Len(eligible) > 0 THEN <<eligible[1]>> ELSE <<>>)
                ELSE eligible
        IN  /\ ReplacedOffsets(call.single) = selected
            /\ call.single.result.replacementsMade = Len(selected)
            /\ call.single.newContent = RebuiltAt(call.content, change, selected)

\* a range that holds two matches, with replaceAll = false and
\* occurrence 1: both matches are replaced
C22_Witness ==
    /\ Applied /\ call.path = "slow"
    /\ call.content = <<"a", "a", "a", "b">>
    /\ call.change.searchText = <<"a">>
    /\ call.change.replaceText = <<>>
    /\ call.change.startIndex = Some(1)
    /\ call.change.endIndex = Some(3)
    /\ call.change.replaceAll = Some(FALSE)
    /\ call.change.occurrence = Some(1)
    /\ ~HasContext(call.change)
    /\ call.single.result.positions = Some(<<1, 2>>)
    /\ call.single.newContent = <<"a", "b">>

\* C23: a Change with replaceAll = false, an occurrence and no range has
\* the eligible match of that number, counted from 1, replaced and nothing
\* else of the content touched; when there are fewer eligible matches the
\* content is unchanged and replacementsMade = 0.
C23_OccurrenceTargeting ==
    (/\ Applied
     /\ call.change.replaceAll = Some(FALSE)
     /\ IsSome(call.change.occurrence)
     /\ ~HasRange(call.change)) =>
        LET change == call.change
            eligible == EligibleOffsets(call.content, change)
            n == Get(change.occurrence)
        IN  IF n <= Len(eligible)
            THEN /\ call.single.result.replacementsMade = 1
                 /\ call.single.result.positions = Some(<<eligible[n]>>)
                 /\ call.single.newContent
                        = SubSeq(call.content, 1, eligible[n])
                          \o change.replaceText
                          \o SubSeq(call.content,
                                    eligible[n] + Len(change.searchText) + 1,
                                    Len(call.content))
            ELSE /\ call.single.result.replacementsMade = 0
                 /\ call.single.result.positions = None
                 /\ call.single.newContent = call.content

\* three matches of which the context leaves the last two eligible:
\* occurrence 2 replaces the third match
C23_Witness ==
    /\ Applied
    /\ call.content = <<"a", "a", "a", "b">>
    /\ call.change.searchText = <<"a">>
    /\ call.change.replaceText = <<"b", "b">>
    /\ call.change.replaceAll = Some(FALSE)
    /\ call.change.occurrence = Some(2)
    /\ ~HasRange(call.change)
    /\ call.change.beforeContext = Some(<<"a">>)
    /\ call.change.afterContext = None
    /\ call.single.result.matchesFound = 3
    /\ call.single.result.positions = Some(<<2>>)
    /\ call.single.newContent = <<"a", "a", "b", "b", "b">>

\* C24: on the slow path every replaced match begins at or after
\* startIndex, when given, and ends at or before endIndex, when given;
\* the content is rebuilt from these matches alone, so a match across a
\* bound stays, and with startIndex > endIndex nothing is replaced.
C24_RangeEligibility ==
    (Applied /\ call.path = "slow") =>
        LET change == call.change
            replaced == ReplacedOffsets(call.single)
        IN  /\ \A k \in 1..Len(replaced) :
                   /\ IsSome(change.startIndex) =>
                          replaced[k] >= Get(change.startIndex)
                   /\ IsSome(change.endIndex) =>
                          replaced[k] + Len(change.searchText)
                              <= Get(change.endIndex)
            /\ call.single.newContent = RebuiltAt(call.content, change, replaced)
            /\ (/\ IsSome(change.startIndex) /\ IsSome(change.endIndex)
                /\ Get(change.startIndex) > Get(change.endIndex)) =>
                   /\ replaced = <<>>
                   /\ call.single.result.replacementsMade = 0
                   /\ call.single.newContent = call.content

\* two matches of "ab", the second across endIndex: only the first is
\* replaced
C24_Witness ==
    /\ Applied /\ call.path = "slow"
    /\ call.content = <<"a", "b", "a", "b">>
    /\ call.change.searchText = <<"a", "b">>
    /\ call.change.replaceText = <<>>
    /\ call.change.startIndex = None
    /\ call.change.endIndex = Some(3)
    /\ ~HasContext(call.change)
    /\ call.single.result.matchesFound = 2
    /\ call.single.result.positions = Some(<<0>>)
    /\ call.single.newContent = <<"a", "b">>

\* C25: on the slow path every replaced match has, in the content given
\* to the Change, the beforeContext (when given) standing right before it
\* and the afterContext (when given) standing right after it, each in
\* full; with both given both stand.
C25_ContextEligibility ==
    (Applied /\ call.path = "slow") =>
        LET change == call.change
            replaced == ReplacedOffsets(call.single)
        IN  /\ \A k \in 1..Len(replaced) :
                   /\ IsSome(change.beforeContext) =>
                          LET before == Get(change.beforeContext)
                              from == replaced[k] - Len(before)
                          IN  /\ from >= 0
                              /\ SubSeq(call.content, from + 1, replaced[k]) = before
                   /\ IsSome(change.afterContext) =>
                          LET after == Get(change.afterContext)
                              end == replaced[k] + Len(change.searchText)
                          IN  /\ end + Len(after) <= Len(call.content)
                              /\ SubSeq(call.content, end + 1, end + Len(after))
                                     = after
            /\ Len(replaced) = call.single.result.replacementsMade
            /\ Len(call.single.newContent)
                   = Len(call.content)
                     + Len(replaced) * (Len(change.replaceText) - Len(change.searchText))

\* both contexts given: of three matches the first has no room before it
\* and the last has no b after it, so only the second is replaced
C25_Witness ==
    /\ Applied /\ call.path = "slow"
    /\ call.content = <<"a", "a", "b", "a">>
    /\ call.change.searchText = <<"a">>
    /\ call.change.replaceText = <<>>
    /\ call.change.beforeContext = Some(<<"a">>)
    /\ call.change.afterContext = Some(<<"b">>)
    /\ ~HasRange(call.change)
    /\ call.change.replaceAll = None
    /\ call.single.result.matchesFound = 3
    /\ call.single.result.positions = Some(<<1>>)
    /\ call.single.newContent = <<"a", "b", "a">>

\* C26: the fast path reports no positions; the slow path reports none
\* when it replaced nothing, and otherwise reports, in strictly ascending
\* order, one offset for each replacement made, each the offset of a
\* match in the input content, the new content being the input content
\* with exactly the matches at these offsets replaced.
C26_ReportedPositions ==
    Applied =>
        LET result == call.single.result
        IN  IF call.path = "fast" \/ result.replacementsMade = 0
            THEN result.positions = None
            ELSE /\ IsSome(result.positions)
                 /\ LET positions == Get(result.positions)
                        offsets == MatchOffsets(call.content, call.change, 0)
                    IN  /\ Len(positions) = result.replacementsMade
                        /\ \A i \in 1..Len(positions), j \in 1..Len(positions) :
                               i < j => positions[i] < positions[j]
                        /\ \A i \in 1..Len(positions) :
                               \E k \in 1..Len(offsets) : offsets[k] = positions[i]
                        /\ call.single.newContent
                               = RebuiltAt(call.content, call.change, positions)

\* two replacements on the slow path, reported lowest offset first
C26_Witness ==
    /\ Applied /\ call.path = "slow"
    /\ call.content = <<"a", "b", "a", "b">>
    /\ call.change.searchText = <<"a", "b">>
    /\ call.change.replaceText = <<"b", "b">>
    /\ call.change.beforeContext = Some(<<>>)
    /\ call.change.afterContext = None
    /\ ~HasRange(call.change)
    /\ call.change.replaceAll = None /\ call.change.occurrence = None
    /\ call.single.result.replacementsMade = 2
    /\ call.single.result.positions = Some(<<0, 2>>)
    /\ call.single.newContent = <<"b", "b", "b", "b">>

\* the offsets of the matches the outcome of the call has replaced: those
\* the slow path reports, and on the fast path every match, or the first
\* one when replaceAll = false
SelectedOffsets ==
    LET offsets == MatchOffsets(call.content, call.change, 0)
    IN  IF call.path = "slow" THEN ReplacedOffsets(call.single)
        ELSE IF call.change.replaceAll = Some(FALSE)
        THEN (IF Len(offsets) > 0 THEN <<offsets[1]>> ELSE <<>>)
        ELSE offsets

\* C27: on either path newContent is the input content with the selected
\* matches replaced by replaceText as it is written, every other
\* character kept in order, so that its length is the length of the
\* content plus (length of replaceText - length of the match) for each
\* replaced match, whatever '$' sequences replaceText holds.
C27_LiteralReplacement ==
    Applied =>
        /\ call.single.newContent
               = RebuiltAt(call.content, call.change, SelectedOffsets)
        /\ Len(call.single.newContent)
               = Len(call.content)
                 + Len(SelectedOffsets)
                   * (Len(call.change.replaceText) - Len(call.change.searchText))

\* C30: in the result of a Change, on either path, matchesFound is the
\* number of matches of the search text in the whole input content,
\* whatever the range, the contexts and the occurrence leave eligible, and
\* replacementsMade is the number of matches replaced, which lies between
\* 0 and matchesFound.
C30_MatchCounting ==
    Applied =>
        LET matches == Len(MatchOffsets(call.content, call.change, 0))
        IN  /\ \A outcome \in {call.single, call.fast, call.slow} :
                   /\ outcome.result.matchesFound = matches
                   /\ 0 <= outcome.result.replacementsMade
                   /\ outcome.result.replacementsMade <= outcome.result.matchesFound
            /\ call.single.result.replacementsMade = Len(SelectedOffsets)
            /\ call.slow.result.replacementsMade = Len(ReplacedOffsets(call.slow))
            /\ call.slow.newContent
                   = RebuiltAt(call.content, call.change, ReplacedOffsets(call.slow))
            /\ "$" \notin ToSet(call.change.replaceText) =>
                   Len(call.single.newContent)
                       = Len(call.content)
                         + call.single.result.replacementsMade
                           * (Len(call.change.replaceText)
                                  - Len(call.change.searchText))

\* three matches of which the range holds one: matchesFound = 3 and
\* replacementsMade = 1
C30_Witness ==
    /\ Applied /\ call.path = "slow"
    /\ call.content = <<"a", "a", "a", "b">>
    /\ call.change.searchText = <<"a">>
    /\ call.change.replaceText = <<"b", "b">>
    /\ call.change.startIndex = Some(1)
    /\ call.change.endIndex = Some(2)
    /\ ~HasContext(call.change)
    /\ call.single.result.matchesFound = 3
    /\ call.single.result.replacementsMade = 1
    /\ call.single.newContent = <<"a", "b", "b", "a", "b">>

(***************************************************************************)
(* The loops over the matches, one iteration at a time: findAllMatches     *)
(* (services/change.service.ts) and searchInDocument                       *)
(* (services/search.service.ts).  call.lastIndex is searchPattern.lastIndex *)
(* and call.matches the matches pushed so far; searchInDocument starts     *)
(* with call.prior results and stops at call.maxResults.                   *)
(***************************************************************************)
MaxScanLen == 3

ScanContents == Texts({"a", " "}, MaxScanLen)

ScanSearchTexts == {<<>>, <<"a">>, <<"a", "a">>, <<"a", " ">>}

\* the patterns of buildPattern and of search
ScanPatterns ==
    {buildPattern([Change(searchText, <<>>) EXCEPT
                       !.matchWholeWord = Some(matchWholeWord)]) :
         searchText \in ScanSearchTexts, matchWholeWord \in BOOLEAN}
    \cup {NewRegExp(escapeRegex(query), {"g", "i"}) : query \in ScanSearchTexts}

\* the iterations a loop of the model may take
MaxIterations == MaxScanLen + 2

\* a faulty variant: lastIndex stays where exec left it after an empty match
lastIndexAfterMatchNoAdvance(m) == m.index + m.length

\* searchPattern.lastIndex at the end of an iteration: exec leaves it at
\* the end of the match, and the loop adds one after an empty match
lastIndexAfterMatch(m) ==
    IF m.length = 0
    THEN m.index + m.length + 1
    ELSE m.index + m.length

InitScan ==
    /\ documents = <<>>
    /\ wordIndex = <<>>
    /\ nextId = 0
    /\ now = 0
    /\ resp = Result("none", 0, 0, FALSE)
    /\ call \in {[phase |-> "scan", loop |-> loop, content |-> content,
                  pattern |-> pattern, lastIndex |-> 0, matches |-> <<>>,
                  prior |-> prior, maxResults |-> maxResults] :
                    loop \in {"findAllMatches", "searchInDocument"},
                    content \in ScanContents, pattern \in ScanPatterns,
                    prior \in {0, 1},
                    maxResults \in {1, 2, MaxScanLen + 2}}

\* one iteration of the while loop of findAllMatches
FindAllMatchesIteration ==
    /\ call.phase = "scan"
    /\ call.loop = "findAllMatches"
    /\ Len(call.matches) < MaxIterations
    /\ LET match == RegExpExec(call.content, call.pattern, call.lastIndex)
       IN  call' = IF match.index < 0
                   THEN [call EXCEPT !.phase = "done", !.lastIndex = 0]
                   ELSE [call EXCEPT
                            !.matches = Append(@, match),
                            !.lastIndex = lastIndexAfterMatch(match)]
    /\ UNCHANGED <<documents, wordIndex, nextId, now, resp>>

\* one iteration of the while loop of searchInDocument
SearchInDocumentIteration ==
    /\ call.phase = "scan"
    /\ call.loop = "searchInDocument"
    /\ Len(call.matches) < MaxIterations
    /\ LET match == RegExpExec(call.content, call.pattern, call.lastIndex)
       IN  call' = IF match.index < 0
                   THEN [call EXCEPT !.phase = "done", !.lastIndex = 0]
                   ELSE IF call.prior + Len(call.matches) >= call.maxResults
                   THEN [call EXCEPT !.phase = "done",
                                     !.lastIndex = match.index + match.length]
                   ELSE [call EXCEPT
                            !.matches = Append(@, match),
                            !.lastIndex = lastIndexAfterMatch(match)]
    /\ UNCHANGED <<documents, wordIndex, nextId, now, resp>>

NextScan == FindAllMatchesIteration \/ SearchInDocumentIteration

\* the runtime runs a loop it has entered until the loop ends
SpecScan == InitScan /\ [][NextScan]_vars /\ WF_vars(NextScan)

\* C28: the loops of findAllMatches and searchInDocument end for every
\* content and every pattern, a pattern that matches the empty string
\* included: every iteration moves lastIndex strictly forward or ends the
\* loop, no loop takes more iterations than the content has offsets, and
\* every loop reaches its end, findAllMatches with all the matches.
C28_Termination ==
    /\ [][call.phase = "scan" =>
              \/ call'.phase = "done"
              \/ call'.lastIndex > call.lastIndex]_vars
    /\ [](/\ Len(call.matches) <= Len(call.content) + 1
          /\ call.phase = "scan" => call.lastIndex <= Len(call.content) + 1
          /\ call.phase = "done" /\ call.loop = "findAllMatches" =>
                 call.matches = findAllMatches(call.content, call.pattern))
    /\ <>(call.phase = "done")

\* findAllMatches has ended on a content of three characters after an empty
\* match at each of its four offsets
C28_Witness ==
    /\ call.phase = "done"
    /\ call.loop = "findAllMatches"
    /\ Len(call.content) = 3
    /\ Len(call.matches) = 4
    /\ \A i \in 1..4 : call.matches[i].length = 0 /\ call.matches[i].index = i - 1

(***************************************************************************)
(* SpecPrune: searches without documentIds over documents whose content    *)
(* holds words longer than the query and characters that are not word      *)
(* characters.                                                             *)
(***************************************************************************)
PruneCreateInputs ==
    {[title |-> <<"A">>, content |-> <<"a", "b">>,
      author |-> None, tags |-> None],
     [title |-> <<"b">>, content |-> <<"a", " ", ".">>,
      author |-> None, tags |-> None]}

PruneQueries ==
    [query : {<<"a">>, <<"b">>, <<"a", "b">>, <<".">>, <<"B">>},
     documentIds : {None},
     caseSensitive : {None, Some(TRUE)},
     contextSize : {None},
     maxResults : {None, Some(1)}]

NextPrune ==
    \/ call = NoCall /\ \E input \in PruneCreateInputs : PostDocument(input)
    \/ call = NoCall /\ \E id \in Ids : DeleteDocumentRoute(id)
    \/ \E query \in PruneQueries, order \in Orders : SearchCall(query, order)
    \/ Return

SpecPrune == Init /\ [][NextPrune]_vars

\* the live documents whose content holds the query of the call
Holders ==
    {id \in DOMAIN documents :
        CountOccurrences(documents[id].content, call.query.query,
                         ~OrDefault(call.query.caseSensitive, FALSE), 0) > 0}

\* C29: in a search without documentIds every live document whose content
\* holds the query as a substring, under the case sensitivity asked for, is
\* a candidate, and unless maxResults cuts the results off every such
\* document has a result.
C29_PruningComplete ==
    (Searched /\ ~IsSome(call.query.documentIds)) =>
        /\ Holders \subseteq ToSet(call.candidates)
        /\ Len(call.out.results) < OrDefault(call.query.maxResults, 100) =>
               \A id \in Holders :
                   \E k \in 1..Len(call.out.results) :
                       call.out.results[k].documentId = id

====
